---- MODULE Spec2Model ----
(***************************************************************************)
(* Employee management API: the employee / attendance-record store, the   *)
(* GraphQL resolver operations on it and the attendance recomputation.    *)
(*                                                                         *)
(* Every resolver call is a request r that runs as a chain of atomic      *)
(* steps; a step ends at each await of a store call, so the steps of      *)
(* different requests interleave exactly where the event loop can switch. *)
(*                                                                         *)
(* Time is a counter of ticks; TicksPerDay ticks make one calendar day.   *)
(* A Date is a tick count (NaNDate is the invalid Date).                  *)
(* An attendance percentage p is kept exactly, as the pair <<n, d>> with  *)
(* p = n / d, in the canonical form produced by Percentage.               *)
(***************************************************************************)
EXTENDS Integers, FiniteSets, Sequences, TLC

(* ------------------------------ bounds -------------------------------- *)

\* Operations started in one behaviour.
MaxOps == 4

\* Last value of the clock.
MaxTime == 3

\* Clock ticks per calendar day.
TicksPerDay == 2

(* ------------------------- program constants -------------------------- *)

\* employeeSchema.attendance default
DefaultAttendance == 100

\* updateAttendancePercentage: (presentDays / records.length) * 100
PercentScale == 100

\* employeeStats: { $limit: 30 }
TrendLimit == 30

\* CONSTRAINTS.AGE
AgeMin == 18

AgeMax == 70

\* validateAttendanceInput: notes.length > 500
MaxNotes == 500

\* Query.employees: page = 1, pageSize = 10
DefaultPage == 1

DefaultPageSize == 10

(* ------------------------------ domains ------------------------------- *)

\* ObjectIds the store can hand out to employees.
EmpIds == {"e1", "e2"}

Reqs == {"r1", "r2"}

\* The invalid Date (getTime() is NaN).
NaNDate == 0 - 1

\* A Date field that is not set.
NoDate == 0 - 2

\* Date values in clock ticks, TicksPerDay ticks to a calendar day.  A
\* resolver input is a Date as AttendanceInput declares it (types/index.ts);
\* the typeDefs declare "scalar Date" without a resolver for it, so the
\* conversion from the wire format is outside the resolvers modelled here.
Dates ==0 .. MaxTime

\* type UserRole
Roles == {"ADMIN", "EMPLOYEE"}

NoUser == [id |-> "none", role |-> "NONE"]

\* The identities a verified token can carry (types/index.ts User).
Admin == [id |-> "a1", role |-> "ADMIN"]

Users == {NoUser, Admin, [id |-> "e1", role |-> "EMPLOYEE"]}

Emails == {"a@x.io", "b@x.io"}

BadEmail == "no-at-sign"

\* An address with a capital letter, equal to "a@x.io" but for its case.
MixedEmail == "A@x.io"

Ages == {AgeMin - 1, AgeMin, AgeMax, AgeMax + 1}

Classes == {"10A"}

\* An ObjectId that no employee has.
AbsentId == "e3"

\* The keys of the loads of one request.
LoadKeys == EmpIds \cup {AbsentId}

\* More distinct ObjectIds than one batch of a loader takes (none of them an
\* employee's).
FillerKeys ==
    <<
       "k001", "k002", "k003", "k004", "k005", "k006", "k007", "k008",
       "k009", "k010", "k011", "k012", "k013", "k014", "k015", "k016",
       "k017", "k018", "k019", "k020", "k021", "k022", "k023", "k024",
       "k025", "k026", "k027", "k028", "k029", "k030", "k031", "k032",
       "k033", "k034", "k035", "k036", "k037", "k038", "k039", "k040",
       "k041", "k042", "k043", "k044", "k045", "k046", "k047", "k048",
       "k049", "k050", "k051", "k052", "k053", "k054", "k055", "k056",
       "k057", "k058", "k059", "k060", "k061", "k062", "k063", "k064",
       "k065", "k066", "k067", "k068", "k069", "k070", "k071", "k072",
       "k073", "k074", "k075", "k076", "k077", "k078", "k079", "k080",
       "k081", "k082", "k083", "k084", "k085", "k086", "k087", "k088",
       "k089", "k090", "k091", "k092", "k093", "k094", "k095", "k096",
       "k097", "k098", "k099", "k100", "k101"
    >>

\* Lengths of the notes of an attendance input; 0 is "no notes".
NotesLens == {0, MaxNotes, MaxNotes + 1}

VARIABLES
    employees,  \* the Employee collection: id -> document
    records,    \* the AttendanceRecord collection: set of documents
    now,        \* the clock (new Date())
    pc,         \* per request: the await it is suspended at
    req,        \* per request: operation, identity and arguments
    loc,        \* per request: the locals that live across awaits
    resp,       \* per request: what the resolver returned or threw
    nops,       \* operations started so far
    queries     \* per request: the $in filters of the finds of its loaders

vars == <<employees, records, now, pc, req, loc, resp, nops, queries>>

store == <<employees, records>>

(* --------------------------- pure functions --------------------------- *)

RECURSIVE GCD(_, _)
GCD(a, b) == IF b = 0 THEN a ELSE GCD(b, a % b)

\* (presentDays / total) * 100 as an exact value.
Percentage(presentDays, total) ==
    LET g == GCD(presentDays, total)
    IN  <<PercentScale * (presentDays \div g), total \div g>>

Day(date) == date \div TicksPerDay

\* The percentage 100 (the schema default and the value for no records).
Hundred == <<DefaultAttendance, 1>>

(* ------------------------ errors and responses ------------------------ *)

NoCode == "NONE"

\* An error of a payload's errors list, or a thrown error: message and
\* extensions.code (NoCode when the error carries none).
Err(message, code) == [message |-> message, code |-> code]

NoResp ==
    [kind |-> "none", success |-> FALSE, message |-> "", errors |-> <<>>,
     data |-> <<>>]

\* A GraphQLError thrown out of the resolver: a transport-level failure.
Thrown(message, code) ==
    [kind |-> "error", success |-> FALSE, message |-> message,
     errors |-> <<Err(message, code)>>, data |-> <<>>]

\* A MutationResponse returned by a mutation resolver.
Payload(success, message, errors, data) ==
    [kind |-> "payload", success |-> success, message |-> message,
     errors |-> errors, data |-> data]

\* The value a query resolver returns.
Data(data) ==
    [kind |-> "data", success |-> TRUE, message |-> "", errors |-> <<>>,
     data |-> data]

(* --------------------------- access control --------------------------- *)

\* checkRole without the test of the role.
checkRoleAnyRole(requiredRoles, user) ==
    IF user = NoUser THEN Err("Authentication required", NoCode)
    ELSE Err("OK", NoCode)

\* checkRole(requiredRoles)(user): "OK", or the error it throws.  The
\* options object handed to createAuthError is itself stored under
\* extensions, so the code sits at extensions.extensions.code and the
\* thrown error has no extensions.code of its own.
checkRole(requiredRoles, user) ==
    IF user = NoUser THEN Err("Authentication required", NoCode)
    ELSE IF user.role \notin requiredRoles THEN Err("Not authorized", NoCode)
    ELSE Err("OK", NoCode)

\* canAccessEmployeeData without the comparison of the ids.
canAccessAnyEmployee(user, employeeId) ==
    IF user = NoUser THEN FALSE
    ELSE IF user.role = "ADMIN" THEN TRUE
    ELSE user.role = "EMPLOYEE"

canAccessEmployeeData(user, employeeId) ==
    IF user = NoUser THEN FALSE
    ELSE IF user.role = "ADMIN" THEN TRUE
    ELSE user.role = "EMPLOYEE" /\ user.id = employeeId

(* ----------------------------- validation ----------------------------- *)

\* validateDate without the comparison with the current time.
validateDateAnyTime(date, t) == date # NaNDate

\* date instanceof Date && !isNaN(date.getTime()) && date <= new Date()
validateDate(date, t) == date # NaNDate /\ date <= t

\* validateAge without the upper limit.
validateAgeNoMax(age) == age >= AgeMin

\* age >= CONSTRAINTS.AGE.MIN && age <= CONSTRAINTS.AGE.MAX
validateAge(age) == age >= AgeMin /\ age <= AgeMax

\* REGEX.EMAIL on the addresses of the model.
validateEmail(email) == email # BadEmail

validateAttendanceInput(input, t) ==
    (IF ~validateDate(input.date, t)
        THEN <<Err("Invalid date or future date not allowed", "INVALID_DATE")>>
        ELSE <<>>)
    \o
    (IF input.notes # 0 /\ input.notes > MaxNotes
        THEN <<Err("Notes cannot exceed 500 characters", "INVALID_NOTES")>>
        ELSE <<>>)

\* validateEmployeeInput that takes a field that is left out for an
\* invalid one.
validateEmployeeInputRequired(input) ==
    (IF \A a \in input.age : ~validateAge(a)
        THEN <<Err("Age must be between 18 and 70", "INVALID_AGE")>>
        ELSE <<>>)
    \o
    (IF \A m \in input.email : ~validateEmail(m)
        THEN <<Err("Invalid email format", "INVALID_EMAIL")>>
        ELSE <<>>)

\* An optional field of an input is the set of its values: {} when the
\* field is left out, {v} when it is given.
validateEmployeeInput(input) ==
    (IF \E a \in input.age : ~validateAge(a)
        THEN <<Err("Age must be between 18 and 70", "INVALID_AGE")>>
        ELSE <<>>)
    \o
    (IF \E m \in input.email : ~validateEmail(m)
        THEN <<Err("Invalid email format", "INVALID_EMAIL")>>
        ELSE <<>>)

(* ------------------------------ the store ----------------------------- *)

\* The setter of email, lowercase: true: the address as it is stored, on a
\* create and on an update.
lowercase(email) == IF email = MixedEmail THEN "a@x.io" ELSE email

Exists(id) == id \in DOMAIN employees

\* AttendanceRecord.find({ employeeId })
RecordsOf(id) == {rec \in records : rec.employeeId = id}

\* The unique index { employeeId: 1, date: 1 }: the key of a document is
\* its employeeId and its date, the Date value as stored.
IndexKey(rec) == <<rec.employeeId, rec.date>>

DuplicateKey(rec) == \E old \in records : IndexKey(old) = IndexKey(rec)

\* The unique index { email: 1 } against the documents other than id.
EmailTaken(email, id) ==
    \E other \in DOMAIN employees \ {id} : employees[other].email = email

\* AttendanceFrom with the days of absence counted in place of the days of
\* presence.
AttendanceFromAbsent(recs) ==
    IF Cardinality(recs) = 0
        THEN Hundred
        ELSE Percentage(Cardinality({rec \in recs : ~rec.present}),
                        Cardinality(recs))

\* The body of updateAttendancePercentage between its find and its save.
AttendanceFrom(recs) ==
    IF Cardinality(recs) = 0
        THEN Hundred
        ELSE Percentage(Cardinality({rec \in recs : rec.present}),
                        Cardinality(recs))

\* NewEmployee with a wrong default for attendance.
NewEmployeeZero(input, t) ==
    [email |-> lowercase(CHOOSE m \in input.email : TRUE),
     age |-> CHOOSE a \in input.age : TRUE,
     class |-> input.class,
     attendance |-> <<0, 1>>,
     lastAttendanceUpdate |-> NoDate,
     createdAt |-> t]

\* new Employee(input), saved at time t: the fields of the input are taken
\* as they are, the schema defaults fill what the input lacks, and
\* timestamps: true sets createdAt.
NewEmployee(input, t) ==
    [email |-> lowercase(CHOOSE m \in input.email : TRUE),
     age |-> CHOOSE a \in input.age : TRUE,
     class |-> input.class,
     attendance |-> IF input.attendance = {} THEN Hundred
                    ELSE CHOOSE p \in input.attendance : TRUE,
     lastAttendanceUpdate |-> NoDate,
     createdAt |-> t]

FreeIds == EmpIds \ DOMAIN employees

\* The ObjectId the driver generates for a new document.
FreshId == CHOOSE id \in FreeIds : TRUE

(* ------------------------------ requests ------------------------------ *)

Mutations == {"createEmployee", "updateEmployee", "markAttendance"}

\* An EmployeeFilter without fields (an optional field is the set of its
\* values).
NoFilter ==
    [class |-> {}, minAge |-> {}, maxAge |-> {}, minAttendance |-> {},
     maxAttendance |-> {}]

NoReq ==
    [op |-> "none", user |-> NoUser, id |-> "none", date |-> NoDate,
     present |-> FALSE, notes |-> 0, age |-> {}, email |-> {},
     class |-> "none", roles |-> {}, keys |-> <<>>, filter |-> NoFilter,
     sort |-> {}, page |-> DefaultPage, pageSize |-> DefaultPageSize,
     totalCount |-> 0, attendance |-> {}]

NoLoc ==
    [caller |-> "none", doc |-> Hundred, attendance |-> Hundred,
     lastAttendanceUpdate |-> NoDate, stats |-> {}, classDistribution |-> {},
     batches |-> <<>>, cache |-> <<>>, totalCount |-> 0,
     caches |-> [employeeLoader |-> <<>>, attendanceLoader |-> <<>>],
     loader |-> "none", keys |-> <<>>, last |-> <<>>, loads |-> 0]

InFlight == {r \in Reqs : pc[r] \notin {"idle", "done"}}

\* A request slot takes a new call when its last one has returned.
Begin(r) == pc[r] \in {"idle", "done"} /\ nops < MaxOps

\* The request returns (or throws) out: the resolver is over.
Return(r, out) ==
    /\ pc' = [pc EXCEPT ![r] = "done"]
    /\ resp' = [resp EXCEPT ![r] = out]
    /\ loc' = [loc EXCEPT ![r] = NoLoc]

\* The request suspends at the await named next.
Await(r, next, locals) ==
    /\ pc' = [pc EXCEPT ![r] = next]
    /\ loc' = [loc EXCEPT ![r] = locals]
    /\ resp' = [resp EXCEPT ![r] = NoResp]

\* A call arrives at slot r.
Accept(r, call) ==
    /\ req' = [req EXCEPT ![r] = call]
    /\ nops' = nops + 1
    /\ queries' = [queries EXCEPT ![r] = <<>>]

\* catch (error) of the mutation resolvers: every Error becomes a payload.
MutationCatch(failed, error) ==
    Payload(FALSE, failed, <<Err(error.message, "INTERNAL_SERVER_ERROR")>>, <<>>)

\* catch (error) of the query resolvers: rethrown as a new GraphQLError that
\* keeps the message only.
QueryCatch(error) == Thrown(error.message, NoCode)

NotAuthenticated == Thrown("Not authenticated", "UNAUTHENTICATED")

(* --------------------------- markAttendance --------------------------- *)

\* Mutation.markAttendance up to its first await.
markAttendance(r, users, ids, dates, lens) ==
    \E u \in users, e \in ids, d \in dates, p \in BOOLEAN, n \in lens :
        LET call == [NoReq EXCEPT !.op = "markAttendance", !.user = u,
                        !.id = e, !.date = d, !.present = p, !.notes = n]
            role == checkRole({"ADMIN"}, u)
            validationErrors == validateAttendanceInput(call, now)
        IN  /\ Begin(r)
            /\ Accept(r, call)
            /\ UNCHANGED <<employees, records, now>>
            /\ IF u = NoUser THEN Return(r, NotAuthenticated)
               ELSE IF role.message # "OK"
                 THEN Return(r, MutationCatch("Failed to mark attendance", role))
               ELSE IF Len(validationErrors) > 0
                 THEN Return(r, Payload(FALSE, "", validationErrors, <<>>))
               ELSE Await(r, "mark_presave", NoLoc)

\* The document AttendanceRecord.create builds from the input.
NewRecord(call) ==
    [employeeId |-> call.id, date |-> call.date, present |-> call.present,
     createdBy |-> call.user.id]

\* AttendanceRecord.create, first part: the schema validators, then
\* pre('save'): Employee.findById and the future-date check.
PreSave(r) ==
    /\ pc[r] = "mark_presave"
    /\ UNCHANGED <<employees, records, now, req, nops, queries>>
    /\ IF ~validateDate(req[r].date, now)
         THEN Return(r, MutationCatch("Failed to mark attendance",
                 Err("Invalid date or future date not allowed", NoCode)))
       ELSE IF ~Exists(req[r].id)
         THEN Return(r, MutationCatch("Failed to mark attendance",
                 Err("Employee not found", NoCode)))
       ELSE IF req[r].date > now
         THEN Return(r, MutationCatch("Failed to mark attendance",
                 Err("Future dates are not allowed", NoCode)))
       ELSE Await(r, "mark_insert", NoLoc)

\* Insert as an upsert: a record with the same employeeId and date is
\* replaced by the new one.
InsertOrReplace(r) ==
    /\ pc[r] = "mark_insert"
    /\ UNCHANGED <<employees, now, req, nops, queries>>
    /\ records' = {old \in records : IndexKey(old) # IndexKey(NewRecord(req[r]))}
                     \cup {NewRecord(req[r])}
    /\ Await(r, "uas_findById", [NoLoc EXCEPT !.caller = "post"])

\* Insert that returns without the recomputations that follow the insert.
InsertAndReturn(r) ==
    /\ pc[r] = "mark_insert"
    /\ UNCHANGED <<employees, now, req, nops, queries>>
    /\ IF DuplicateKey(NewRecord(req[r]))
         THEN /\ Return(r, MutationCatch("Failed to mark attendance",
                     Err("E11000 duplicate key error", NoCode)))
              /\ UNCHANGED records
         ELSE /\ records' = records \cup {NewRecord(req[r])}
              /\ Return(r, Payload(TRUE, "Attendance marked successfully",
                                   <<>>, <<>>))

\* AttendanceRecord.create, second part: the insert, under the unique index.
\* post('save') runs next.
Insert(r) ==
    /\ pc[r] = "mark_insert"
    /\ UNCHANGED <<employees, now, req, nops, queries>>
    /\ IF DuplicateKey(NewRecord(req[r]))
         THEN /\ Return(r, MutationCatch("Failed to mark attendance",
                     Err("E11000 duplicate key error", NoCode)))
              /\ UNCHANGED records
         ELSE /\ records' = records \cup {NewRecord(req[r])}
              /\ Await(r, "uas_findById", [NoLoc EXCEPT !.caller = "post"])

(* ---------------------- attendance recomputation ----------------------- *)

\* What follows a finished updateAttendanceStats / updateAttendancePercentage:
\* after post('save') the resolver calls updateAttendanceStats itself, after
\* that call markAttendance returns, and calculateAttendancePercentage
\* returns employee.attendance.
AfterRecompute(r, attendance) ==
    IF loc[r].caller = "post"
      THEN Await(r, "uas_findById", [NoLoc EXCEPT !.caller = "resolver"])
    ELSE IF loc[r].caller = "resolver"
      THEN Return(r, Payload(TRUE, "Attendance marked successfully", <<>>, <<>>))
    ELSE Return(r, Data(<<attendance>>))

\* Employee.updateAttendanceStats: findById; nothing to do without employee.
updateAttendanceStats(r) ==
    /\ pc[r] = "uas_findById"
    /\ UNCHANGED <<employees, records, now, req, nops, queries>>
    /\ IF Exists(req[r].id)
         THEN Await(r, "uap_find",
                    [loc[r] EXCEPT !.doc = employees[req[r].id].attendance])
         ELSE AfterRecompute(r, Hundred)

\* updateAttendancePercentage that keeps the attendance of the loaded
\* document in place of the value computed from the records.
updateAttendancePercentageKeep(r) ==
    /\ pc[r] = "uap_find"
    /\ UNCHANGED <<employees, records, now, req, nops, queries>>
    /\ Await(r, "uap_save",
             [loc[r] EXCEPT !.attendance = loc[r].doc,
                            !.lastAttendanceUpdate = now])

\* updateAttendancePercentage: AttendanceRecord.find, then the new values
\* are set on the loaded document.
updateAttendancePercentage(r) ==
    /\ pc[r] = "uap_find"
    /\ UNCHANGED <<employees, records, now, req, nops, queries>>
    /\ Await(r, "uap_save",
             [loc[r] EXCEPT !.attendance = AttendanceFrom(RecordsOf(req[r].id)),
                            !.lastAttendanceUpdate = now])

\* this.save(): the paths that were modified are written.  A path set to the
\* value the document was loaded with is not modified, so attendance is
\* written only when the computed value differs from the loaded one.
Save(r) ==
    /\ pc[r] = "uap_save"
    /\ UNCHANGED <<records, now, req, nops, queries>>
    /\ employees' =
         [employees EXCEPT ![req[r].id] =
            [@ EXCEPT !.attendance =
                        IF loc[r].attendance # loc[r].doc
                          THEN loc[r].attendance ELSE @,
                      !.lastAttendanceUpdate = loc[r].lastAttendanceUpdate]]
    /\ AfterRecompute(r, loc[r].attendance)

\* Employee.calculateAttendancePercentage (the recalculate operation), up to
\* the findById.
calculateAttendancePercentage(r, ids) ==
    \E e \in ids :
        /\ Begin(r)
        /\ Accept(r, [NoReq EXCEPT !.op = "recalculate", !.id = e])
        /\ UNCHANGED <<employees, records, now>>
        /\ Await(r, "calc_findById", NoLoc)

CalcFindById(r) ==
    /\ pc[r] = "calc_findById"
    /\ UNCHANGED <<employees, records, now, req, nops, queries>>
    /\ IF Exists(req[r].id)
         THEN Await(r, "uap_find",
                    [NoLoc EXCEPT !.caller = "calc",
                                  !.doc = employees[req[r].id].attendance])
         ELSE Return(r, Thrown("Employee not found", NoCode))

\* The awaits of markAttendance and of the recomputation: a call of the
\* store at each of them.
StoreCalls ==
    {"mark_presave", "mark_insert", "uas_findById", "uap_find", "uap_save",
     "calc_findById"}

\* StoreThrows with a rollback: the record of a markAttendance that fails
\* is taken out of the store again.
StoreThrowsRollback(r) ==
    /\ pc[r] \in StoreCalls
    /\ UNCHANGED <<employees, now, req, nops, queries>>
    /\ records' = IF req[r].op = "markAttendance"
                    THEN records \ {NewRecord(req[r])} ELSE records
    /\ IF req[r].op = "markAttendance"
         THEN Return(r, MutationCatch("Failed to mark attendance",
                                      Err("MongoNetworkError", NoCode)))
         ELSE Return(r, Thrown("MongoNetworkError", NoCode))

\* The awaited call of the store rejects (the connection is lost, the
\* server reports an error): nothing is written, the error propagates out
\* of the model methods and the hooks, into the catch of markAttendance or
\* to the caller of calculateAttendancePercentage.
StoreThrows(r) ==
    /\ pc[r] \in StoreCalls
    /\ UNCHANGED <<employees, records, now, req, nops, queries>>
    /\ IF req[r].op = "markAttendance"
         THEN Return(r, MutationCatch("Failed to mark attendance",
                                      Err("MongoNetworkError", NoCode)))
         ELSE Return(r, Thrown("MongoNetworkError", NoCode))

(* ------------------- createEmployee, updateEmployee ------------------- *)

\* A create in flight will take an ObjectId: the model has to have one left.
Creating == {r \in Reqs : pc[r] = "create_insert"}

\* Mutation.createEmployee up to its first await.
createEmployee(r, users, ages, emails) ==
    \E u \in users, a \in ages, m \in emails, c \in Classes :
        LET call == [NoReq EXCEPT !.op = "createEmployee", !.user = u,
                        !.age = {a}, !.email = {m}, !.class = c]
            role == checkRole({"ADMIN"}, u)
            validationErrors == validateEmployeeInput(call)
        IN  /\ Begin(r)
            /\ Cardinality(FreeIds) > Cardinality(Creating)
            /\ Accept(r, call)
            /\ UNCHANGED <<employees, records, now>>
            /\ IF u = NoUser THEN Return(r, NotAuthenticated)
               ELSE IF role.message # "OK"
                 THEN Return(r, MutationCatch("Failed to create employee", role))
               ELSE IF Len(validationErrors) > 0
                 THEN Return(r, Payload(FALSE, "", validationErrors, <<>>))
               ELSE Await(r, "create_insert", NoLoc)

\* Employee.create(input): the insert, under the unique index on email.
CreateInsert(r) ==
    /\ pc[r] = "create_insert"
    /\ UNCHANGED <<records, now, req, nops, queries>>
    /\ IF \E m \in req[r].email : EmailTaken(lowercase(m), FreshId)
         THEN /\ Return(r, MutationCatch("Failed to create employee",
                     Err("E11000 duplicate key error", NoCode)))
              /\ UNCHANGED employees
         ELSE /\ employees' =
                   [id \in DOMAIN employees \cup {FreshId} |->
                      IF id = FreshId THEN NewEmployee(req[r], now)
                                      ELSE employees[id]]
              /\ Return(r, Payload(TRUE, "Employee created successfully", <<>>,
                                   <<NewEmployee(req[r], now)>>))

\* { $set: input } on a document.
SetFields(doc, input) ==
    [doc EXCEPT !.age = IF input.age = {} THEN @
                        ELSE CHOOSE a \in input.age : TRUE,
                !.email = IF input.email = {} THEN @
                          ELSE lowercase(CHOOSE m \in input.email : TRUE),
                !.attendance = IF input.attendance = {} THEN @
                               ELSE CHOOSE p \in input.attendance : TRUE]

\* The fields of the input types as schema.graphql has them, a file that
\* the server does not load: UpdateEmployeeInput with attendance.
InputFieldsGraphql(op) ==
    IF op = "createEmployee"
      THEN {"name", "email", "age", "class", "subjects", "role"}
      ELSE {"name", "email", "age", "class", "subjects", "attendance"}

\* The fields of CreateEmployeeInput and of UpdateEmployeeInput in the
\* typeDefs that the server is built with: the two types have the same
\* fields, optional in the second.
InputFields(op) ==
    {"name", "age", "class", "subjects", "email", "phone", "role",
     "dateOfJoining"}

\* A createEmployee or updateEmployee whose input has the field attendance:
\* the input is coerced to its type before the resolver is called, and a
\* field that the type has not is an error of the request.  A field that
\* the type has goes through the resolver into the store with the rest.
mutationWithAttendance(r, users, ops, ids, attendances) ==
    \E u \in users, op \in ops, e \in ids, p \in attendances :
        LET create == op = "createEmployee"
            call == [NoReq EXCEPT !.op = op, !.user = u,
                        !.id = IF create THEN "none" ELSE e,
                        !.age = IF create THEN {AgeMin} ELSE {},
                        !.email = IF create THEN {"b@x.io"} ELSE {},
                        !.class = IF create THEN "10A" ELSE "none",
                        !.attendance = {p}]
            role == checkRole({"ADMIN"}, u)
            failed == IF create THEN "Failed to create employee"
                      ELSE "Failed to update employee"
        IN  /\ Begin(r)
            /\ create => Cardinality(FreeIds) > Cardinality(Creating)
            /\ Accept(r, call)
            /\ UNCHANGED <<employees, records, now>>
            /\ IF "attendance" \notin InputFields(op)
                 THEN Return(r, Thrown("Field is not defined by type",
                                       "BAD_USER_INPUT"))
               ELSE IF u = NoUser THEN Return(r, NotAuthenticated)
               ELSE IF role.message # "OK"
                 THEN Return(r, MutationCatch(failed, role))
               ELSE IF Len(validateEmployeeInput(call)) > 0
                 THEN Return(r, Payload(FALSE, "",
                                        validateEmployeeInput(call), <<>>))
               ELSE Await(r, IF create THEN "create_insert" ELSE "update_exec",
                          NoLoc)

\* Mutation.updateEmployee up to its first await.
updateEmployee(r, users, ids, ages, emails) ==
    \E u \in users, e \in ids,
       a \in {{}} \cup {{x} : x \in ages},
       m \in {{}} \cup {{x} : x \in emails} :
        LET call == [NoReq EXCEPT !.op = "updateEmployee", !.user = u,
                        !.id = e, !.age = a, !.email = m]
            role == checkRole({"ADMIN"}, u)
            validationErrors == validateEmployeeInput(call)
        IN  /\ Begin(r)
            /\ Accept(r, call)
            /\ UNCHANGED <<employees, records, now>>
            /\ IF u = NoUser THEN Return(r, NotAuthenticated)
               ELSE IF role.message # "OK"
                 THEN Return(r, MutationCatch("Failed to update employee", role))
               ELSE IF Len(validationErrors) > 0
                 THEN Return(r, Payload(FALSE, "", validationErrors, <<>>))
               ELSE Await(r, "update_exec", NoLoc)

\* FindByIdAndUpdate with the option upsert: a document is made for an id
\* that has none.
FindByIdAndUpsert(r) ==
    /\ pc[r] = "update_exec"
    /\ UNCHANGED <<records, now, req, nops, queries>>
    /\ IF \E m \in req[r].email : EmailTaken(lowercase(m), req[r].id)
         THEN /\ Return(r, MutationCatch("Failed to update employee",
                     Err("E11000 duplicate key error", NoCode)))
              /\ UNCHANGED employees
       ELSE LET old == IF Exists(req[r].id) THEN employees[req[r].id]
                       ELSE NewEmployee([req[r] EXCEPT !.age = {AgeMin},
                                                       !.email = {"b@x.io"}], now)
                doc == SetFields(old, req[r])
            IN  /\ employees' = [id \in DOMAIN employees \cup {req[r].id} |->
                                   IF id = req[r].id THEN doc ELSE employees[id]]
                /\ Return(r, Payload(TRUE, "Employee updated successfully",
                                     <<>>, <<doc>>))

\* Employee.findByIdAndUpdate(id, { $set: input }, { new: true }).
FindByIdAndUpdate(r) ==
    /\ pc[r] = "update_exec"
    /\ UNCHANGED <<records, now, req, nops, queries>>
    /\ IF ~Exists(req[r].id)
         THEN /\ Return(r, Payload(FALSE, "Employee not found",
                              <<Err("Employee not found", "NOT_FOUND")>>, <<>>))
              /\ UNCHANGED employees
       ELSE IF \E m \in req[r].email : EmailTaken(lowercase(m), req[r].id)
         THEN /\ Return(r, MutationCatch("Failed to update employee",
                     Err("E11000 duplicate key error", NoCode)))
              /\ UNCHANGED employees
       ELSE /\ employees' = [employees EXCEPT ![req[r].id] = SetFields(@, req[r])]
            /\ Return(r, Payload(TRUE, "Employee updated successfully", <<>>,
                                 <<SetFields(employees[req[r].id], req[r])>>))

(* ------------------------------ queries ------------------------------- *)

RECURSIVE SortByDateDesc(_)
\* .sort({ date: -1 })
SortByDateDesc(recs) ==
    IF recs = {} THEN <<>>
    ELSE LET newest == CHOOSE x \in recs : \A y \in recs : y.date <= x.date
         IN  <<newest>> \o SortByDateDesc(recs \ {newest})

\* Query.employee up to the load of the employee loader.
employee(r, users, ids) ==
    \E u \in users, e \in ids :
        /\ Begin(r)
        /\ Accept(r, [NoReq EXCEPT !.op = "employee", !.user = u, !.id = e])
        /\ UNCHANGED <<employees, records, now>>
        /\ IF u = NoUser THEN Return(r, NotAuthenticated)
           ELSE IF ~canAccessEmployeeData(u, e)
             THEN Return(r, QueryCatch(Err("Not authorized", "FORBIDDEN")))
           ELSE Await(r, "employee_load", NoLoc)

\* The batch of the employee loader for the one key of this request:
\* Employee.find({ _id: { $in: [id] } }), null for a key without document.
EmployeeLoad(r) ==
    /\ pc[r] = "employee_load"
    /\ UNCHANGED <<employees, records, now, req, nops>>
    /\ queries' = [queries EXCEPT ![r] = Append(@, <<req[r].id>>)]
    /\ Return(r, Data(IF Exists(req[r].id) THEN <<employees[req[r].id]>>
                                           ELSE <<>>))

\* Query.employeeAttendance up to the load of the attendance loader.
employeeAttendance(r, users, ids) ==
    \E u \in users, e \in ids :
        /\ Begin(r)
        /\ Accept(r, [NoReq EXCEPT !.op = "employeeAttendance", !.user = u,
                         !.id = e])
        /\ UNCHANGED <<employees, records, now>>
        /\ IF u = NoUser THEN Return(r, NotAuthenticated)
           ELSE IF ~canAccessEmployeeData(u, e)
             THEN Return(r, QueryCatch(Err("Not authorized", NoCode)))
           ELSE Await(r, "attendance_load", NoLoc)

\* The batch of the attendance loader for the one key of this request.
AttendanceLoad(r) ==
    /\ pc[r] = "attendance_load"
    /\ UNCHANGED <<employees, records, now, req, nops>>
    /\ queries' = [queries EXCEPT ![r] = Append(@, <<req[r].id>>)]
    /\ Return(r, Data(SortByDateDesc(RecordsOf(req[r].id))))

\* Query.employeeStats up to its first aggregate.
employeeStats(r, users) ==
    \E u \in users :
        LET role == checkRole({"ADMIN"}, u)
        IN  /\ Begin(r)
            /\ Accept(r, [NoReq EXCEPT !.op = "employeeStats", !.user = u])
            /\ UNCHANGED <<employees, records, now>>
            /\ IF u = NoUser THEN Return(r, NotAuthenticated)
               ELSE IF role.message # "OK" THEN Return(r, QueryCatch(role))
               ELSE Await(r, "stats_total", NoLoc)

\* Employee.aggregate $group _id: null: one group, none for no employee.
\* (The averages of the group are not part of the model.)
StatsTotal(r) ==
    /\ pc[r] = "stats_total"
    /\ UNCHANGED <<employees, records, now, req, nops, queries>>
    /\ Await(r, "stats_class",
             [NoLoc EXCEPT !.stats =
                IF DOMAIN employees = {} THEN {}
                ELSE {Cardinality(DOMAIN employees)}])

\* Employee.aggregate $group _id: '$class'.
StatsClass(r) ==
    /\ pc[r] = "stats_class"
    /\ UNCHANGED <<employees, records, now, req, nops, queries>>
    /\ Await(r, "stats_trend",
             [loc[r] EXCEPT !.classDistribution =
                { [class |-> c,
                   count |-> Cardinality({id \in DOMAIN employees :
                                            employees[id].class = c})] :
                  c \in {employees[id].class : id \in DOMAIN employees} }])

\* The groups of the trend aggregate: one per calendar day that has records.
TrendGroup(day) ==
    [date |-> day,
     totalPresent |-> Cardinality({rec \in records :
                                     Day(rec.date) = day /\ rec.present}),
     totalAbsent |-> Cardinality({rec \in records :
                                    Day(rec.date) = day /\ ~rec.present})]

RECURSIVE TrendOf(_, _)
\* { $sort: { _id: -1 } }, { $limit }
TrendOf(days, limit) ==
    IF days = {} \/ limit = 0 THEN <<>>
    ELSE LET latest == CHOOSE d \in days : \A other \in days : other <= d
         IN  <<TrendGroup(latest)>> \o TrendOf(days \ {latest}, limit - 1)

\* AttendanceRecord.aggregate, then the result object is returned.
StatsTrend(r) ==
    /\ pc[r] = "stats_trend"
    /\ UNCHANGED <<employees, records, now, req, nops, queries>>
    /\ Return(r, Data(<<[totalEmployees |-> loc[r].stats,
                         classDistribution |-> loc[r].classDistribution,
                         attendanceTrend |->
                            TrendOf({Day(rec.date) : rec \in records},
                                    TrendLimit)]>>))

(* --------------------------- Query.employees --------------------------- *)

\* enum EmployeeSort (NAME_ASC and NAME_DESC are left out: the documents of
\* the model have no name).
Sorts ==
    {"AGE_ASC", "AGE_DESC", "CLASS_ASC", "CLASS_DESC", "ATTENDANCE_ASC",
     "ATTENDANCE_DESC", "CREATED_AT_ASC", "CREATED_AT_DESC"}

\* sort.toLowerCase()
toLowerCase(sort) ==
    CASE sort = "AGE_ASC" -> "age_asc"
      [] sort = "AGE_DESC" -> "age_desc"
      [] sort = "CLASS_ASC" -> "class_asc"
      [] sort = "CLASS_DESC" -> "class_desc"
      [] sort = "ATTENDANCE_ASC" -> "attendance_asc"
      [] sort = "ATTENDANCE_DESC" -> "attendance_desc"
      [] sort = "CREATED_AT_ASC" -> "created_at_asc"
      [] sort = "CREATED_AT_DESC" -> "created_at_desc"

\* sort.endsWith('_DESC')
endsWithDesc(sort) ==
    sort \in {"AGE_DESC", "CLASS_DESC", "ATTENDANCE_DESC", "CREATED_AT_DESC"}

\* sortObj: the path to sort by and the direction, 1 or -1.
SortObj(sort) ==
    IF sort = {} THEN [path |-> "createdAt", dir |-> 0 - 1]
    ELSE LET given == CHOOSE x \in sort : TRUE
         IN  [path |-> toLowerCase(given),
              dir |-> IF endsWithDesc(given) THEN 0 - 1 ELSE 1]

\* The order of the class names.
ClassRank(class) == IF class = "10A" THEN 1 ELSE 2

\* The sort order of the store on a path: a comes no later than b.  On a
\* path that the documents do not have, both keys are null and every order
\* of the two documents is a sorted one.
NoLater(a, b, path) ==
    CASE path = "age" -> a.age <= b.age
      [] path = "createdAt" -> a.createdAt <= b.createdAt
      [] path = "class" -> ClassRank(a.class) <= ClassRank(b.class)
      [] path = "attendance" ->
            a.attendance[1] * b.attendance[2] <= b.attendance[1] * a.attendance[2]
      [] OTHER -> TRUE

\* The sequences without repetition of the members of set.
Perms(set) ==
    {s \in [1 .. Cardinality(set) -> set] :
        \A i, j \in DOMAIN s : i # j => s[i] # s[j]}

\* .sort(sortObj): the orders of the documents ids that the store may give.
Orders(ids, sortObj) ==
    {s \in Perms(ids) :
        \A i, j \in DOMAIN s :
            i < j => IF sortObj.dir = 1
                       THEN NoLater(employees[s[i]], employees[s[j]], sortObj.path)
                       ELSE NoLater(employees[s[j]], employees[s[i]], sortObj.path)}

\* The query object built from the filter: if (filter.minAge) ... takes a
\* bound only when its value is truthy, and 0 is not.
BuildQuery(filter) ==
    [class |-> filter.class,
     minAge |-> {v \in filter.minAge : v # 0},
     maxAge |-> {v \in filter.maxAge : v # 0},
     minAttendance |-> {v \in filter.minAttendance : v # 0},
     maxAttendance |-> {v \in filter.maxAttendance : v # 0}]

\* The store's match of a document against the query: class equal, age in
\* [$gte, $lte], attendance in [$gte, $lte].
Matches(doc, query) ==
    /\ \A v \in query.class : doc.class = v
    /\ \A v \in query.minAge : doc.age >= v
    /\ \A v \in query.maxAge : doc.age <= v
    /\ \A v \in query.minAttendance :
          doc.attendance[1] >= v * doc.attendance[2]
    /\ \A v \in query.maxAttendance :
          doc.attendance[1] <= v * doc.attendance[2]

Found(query) == {id \in DOMAIN employees : Matches(employees[id], query)}

\* const skip = (page - 1) * pageSize; .skip(skip).limit(pageSize)
FindOptions(page, pageSize) ==
    [skip |-> (page - 1) * pageSize, limit |-> pageSize]

\* Math.ceil(a / b) for b >= 1
Ceil(a, b) == (a + b - 1) \div b

\* PageInfo with the number of pages rounded down.
PageInfoFloor(page, pageSize, totalCount) ==
    [hasNextPage |-> page < totalCount \div pageSize,
     hasPreviousPage |-> page > 1,
     totalPages |-> totalCount \div pageSize,
     totalCount |-> totalCount,
     currentPage |-> page]

\* pageInfo of the result.
PageInfo(page, pageSize, totalCount) ==
    [hasNextPage |-> page < Ceil(totalCount, pageSize),
     hasPreviousPage |-> page > 1,
     totalPages |-> Ceil(totalCount, pageSize),
     totalCount |-> totalCount,
     currentPage |-> page]

\* The documents of a find: those of order after the first skip ones, at
\* most limit of them.
Slice(order, options) ==
    SubSeq(order, options.skip + 1,
           IF options.skip + options.limit < Len(order)
             THEN options.skip + options.limit ELSE Len(order))

\* The arguments of an employees query.
Args(filter, sort, page, pageSize) ==
    [filter |-> filter, sort |-> sort, page |-> page, pageSize |-> pageSize]

\* Query.employees up to countDocuments.
employeesQuery(r, users, args) ==
    \E u \in users, a \in args :
        LET call == [NoReq EXCEPT !.op = "employees", !.user = u,
                        !.filter = a.filter, !.sort = a.sort,
                        !.page = a.page, !.pageSize = a.pageSize]
            role == checkRole(Roles, u)
        IN  /\ Begin(r)
            /\ Accept(r, call)
            /\ UNCHANGED <<employees, records, now>>
            /\ IF u = NoUser THEN Return(r, NotAuthenticated)
               ELSE IF role.message # "OK"
                 THEN Return(r, Thrown(role.message, role.code))
               ELSE Await(r, "employees_count", NoLoc)

\* Employee.countDocuments(query)
CountDocuments(r) ==
    /\ pc[r] = "employees_count"
    /\ UNCHANGED <<employees, records, now, req, nops, queries>>
    /\ Await(r, "employees_find",
             [NoLoc EXCEPT !.totalCount =
                Cardinality(Found(BuildQuery(req[r].filter)))])

\* Employee.find(query).sort(sortObj).skip(skip).limit(pageSize), then the
\* page is returned.
Find(r) ==
    /\ pc[r] = "employees_find"
    /\ UNCHANGED <<employees, records, now, req, nops>>
    /\ LET query == BuildQuery(req[r].filter)
           sortObj == SortObj(req[r].sort)
           options == FindOptions(req[r].page, req[r].pageSize)
       IN  /\ queries' = [queries EXCEPT ![r] =
                  Append(@, [query |-> query, sort |-> sortObj,
                             skip |-> options.skip, limit |-> options.limit])]
           /\ \E order \in Orders(Found(query), sortObj) :
                 Return(r, Data(<<
                    [edges |-> [i \in DOMAIN Slice(order, options) |->
                                  [id |-> Slice(order, options)[i]]
                                    @@ employees[Slice(order, options)[i]]],
                     pageInfo |-> PageInfo(req[r].page, req[r].pageSize,
                                           loc[r].totalCount)]>>))

\* The page arithmetic of Query.employees on its own, for a count of matches
\* that the store of the model is too small to hold.
ApplyPageInfo(r, pages, pageSizes, counts) ==
    \E p \in pages, size \in pageSizes, count \in counts :
        /\ Begin(r)
        /\ Accept(r, [NoReq EXCEPT !.op = "pageInfo", !.page = p,
                         !.pageSize = size, !.totalCount = count])
        /\ UNCHANGED <<employees, records, now>>
        /\ Return(r, Data(<<[options |-> FindOptions(p, size),
                             pageInfo |-> PageInfo(p, size, count)]>>))

(* ------------------------------ loaders ------------------------------- *)

\* new DataLoader(..., { maxBatchSize: 100 })
MaxBatchSize == 100

Loaders == {"employeeLoader", "attendanceLoader"}

Range(seq) == {seq[i] : i \in DOMAIN seq}

\* One field of the result of a GraphQL operation: the value its resolver
\* returned, or the mark of the error it threw.
Field(value) == [error |-> FALSE, value |-> value]

FieldError == [error |-> TRUE, value |-> <<>>]

\* The loads of one tick that find no cached promise: in the order of the
\* loads, the first load of each key.
NewKeys(keys) ==
    LET firsts == SelectSeq([i \in DOMAIN keys |-> i],
                            LAMBDA i : \A j \in 1 .. i - 1 : keys[j] # keys[i])
    IN  [m \in DOMAIN firsts |-> keys[firsts[m]]]

\* Batches with batching switched off: every key is a batch of its own.
BatchesAlone(keys) ==
    LET new == NewKeys(keys)
    IN  [b \in 1 .. Len(new) |-> <<new[b]>>]

\* The batches DataLoader.load builds within one tick: a key that was loaded
\* before is served by the cached promise; a new key joins the current
\* batch, or opens the next batch when the current one holds maxBatchSize
\* keys.
Batches(keys) ==
    LET new == NewKeys(keys)
        last(b) == IF b * MaxBatchSize < Len(new) THEN b * MaxBatchSize
                                                  ELSE Len(new)
    IN  [b \in 1 .. (Len(new) + MaxBatchSize - 1) \div MaxBatchSize |->
           SubSeq(new, (b - 1) * MaxBatchSize + 1, last(b))]

\* The batch function with a result for the found keys only: a key without
\* employee fails every load of the batch.
EmployeeBatchAllOrNothing(ids) ==
    LET found == {id \in DOMAIN employees : id \in Range(ids)}
    IN  [i \in DOMAIN ids |->
           IF Range(ids) \subseteq found
             THEN <<[id |-> ids[i]] @@ employees[ids[i]]>>
             ELSE <<>>]

\* The batch function of employeeLoader: Employee.find({ _id: { $in: ids } }),
\* the map from id to employee, then one entry per id in the order of ids,
\* null (the empty sequence) for an id that is not in the map.
EmployeeBatch(ids) ==
    LET found == {id \in DOMAIN employees : id \in Range(ids)}
        employeeMap == [id \in found |-> [id |-> id] @@ employees[id]]
    IN  [i \in DOMAIN ids |->
           IF ids[i] \in DOMAIN employeeMap THEN <<employeeMap[ids[i]]>>
                                            ELSE <<>>]

\* The batch function without the test of the employeeId of a record.
AttendanceBatchUnsplit(employeeIds) ==
    LET found == SortByDateDesc({rec \in records :
                                   rec.employeeId \in Range(employeeIds)})
    IN  [i \in DOMAIN employeeIds |-> found]

\* The batch function of attendanceLoader: AttendanceRecord.find({ employeeId:
\* { $in: employeeIds } }).sort({ date: -1 }), then each record is pushed, in
\* that order, to the list of its employeeId.
AttendanceBatch(employeeIds) ==
    LET found == SortByDateDesc({rec \in records :
                                   rec.employeeId \in Range(employeeIds)})
    IN  [i \in DOMAIN employeeIds |->
           SelectSeq(found, LAMBDA rec : rec.employeeId = employeeIds[i])]

\* The fields of the operation of call: a field whose resolver threw before
\* its load is an error, the others hold what the loader resolved.
Fields(call, cache) ==
    [i \in DOMAIN call.keys |->
       IF canAccessEmployeeData(call.user, call.keys[i])
         THEN Field(cache[call.keys[i]])
         ELSE FieldError]

\* One GraphQL operation that selects employee(id) (loader employeeLoader) or
\* employeeAttendance(id) (loader attendanceLoader) once per key of keys.  The
\* resolvers of the fields all run in the tick the operation starts in, each
\* up to its load; the loaders are the ones of this request (context).
loadFields(r, users, loaders, keySeqs) ==
    \E u \in users, l \in loaders, keys \in keySeqs :
        LET call == [NoReq EXCEPT !.op = l, !.user = u, !.keys = keys]
            loads == SelectSeq(keys, LAMBDA k : canAccessEmployeeData(u, k))
            batches == Batches(loads)
        IN  /\ Begin(r)
            /\ Accept(r, call)
            /\ UNCHANGED <<employees, records, now>>
            /\ IF batches = <<>>
                 THEN Return(r, Data(Fields(call, <<>>)))
                 ELSE Await(r, "loader_dispatch",
                            [NoLoc EXCEPT !.batches = batches])

\* dispatchBatch: the batch function runs on the keys of the next batch (one
\* find), and its values resolve the loads of these keys.  After the last
\* batch every field has its value.
DispatchBatch(r) ==
    /\ pc[r] = "loader_dispatch"
    /\ UNCHANGED <<employees, records, now, req, nops>>
    /\ LET ids == Head(loc[r].batches)
           values == IF req[r].op = "employeeLoader" THEN EmployeeBatch(ids)
                                                     ELSE AttendanceBatch(ids)
           cache == [k \in Range(ids) |->
                       values[CHOOSE i \in DOMAIN ids : ids[i] = k]]
                    @@ loc[r].cache
           rest == Tail(loc[r].batches)
       IN  /\ queries' = [queries EXCEPT ![r] = Append(@, ids)]
           /\ IF rest = <<>>
                THEN Return(r, Data(Fields(req[r], cache)))
                ELSE Await(r, "loader_dispatch",
                           [loc[r] EXCEPT !.batches = rest, !.cache = cache])

(* ----------------------- the loaders of a request --------------------- *)

\* The number of load rounds of one request.
MaxLoads == 2

\* The cache of a loader that is made once for the process and not once
\* for the request: every request sees the entries of the others.
CacheOfShared(r, l) ==
    LET own == loc[r].caches[l]
        other == loc[CHOOSE q \in Reqs \ {r} : TRUE].caches[l]
    IN  [k \in DOMAIN own \cup DOMAIN other |->
           IF k \in DOMAIN own THEN own[k] ELSE other[k]]

\* The cache of loader l of request r: the context function of the server
\* calls createDataLoaders() for every request, so the loaders and their
\* caches belong to the request.
CacheOf(r, l) == loc[r].caches[l]

\* expressMiddleware's context: the identity and new loaders, with empty
\* caches, for a request that arrives.
context(r, users) ==
    \E u \in users :
        /\ Begin(r)
        /\ Accept(r, [NoReq EXCEPT !.op = "request", !.user = u])
        /\ UNCHANGED <<employees, records, now>>
        /\ Await(r, "resolving", NoLoc)

\* The loads of one tick on loader l of the request: a key with a cached
\* promise is served by it, the other keys go into batches.  When every
\* key is cached the loads resolve with no batch; a load that waits for its
\* batch has no value yet (the empty sequence stands in its place).
load(r, loaders, keySeqs) ==
    \E l \in loaders, keys \in keySeqs :
        LET cache == CacheOf(r, l)
            misses == SelectSeq(keys, LAMBDA k : k \notin DOMAIN cache)
            batches == Batches(misses)
        IN  /\ pc[r] = "resolving"
            /\ loc[r].loads < MaxLoads
            /\ UNCHANGED <<employees, records, now, req, nops, resp, queries>>
            /\ IF batches = <<>>
                 THEN /\ pc' = pc
                      /\ loc' = [loc EXCEPT ![r] =
                            [@ EXCEPT !.loader = l, !.keys = keys,
                                      !.loads = @ + 1,
                                      !.last = [i \in DOMAIN keys |->
                                                  cache[keys[i]]]]]
                 ELSE /\ pc' = [pc EXCEPT ![r] = "loader_batch"]
                      /\ loc' = [loc EXCEPT ![r] =
                            [@ EXCEPT !.loader = l, !.keys = keys,
                                      !.loads = @ + 1,
                                      !.batches = batches,
                                      !.last = [i \in DOMAIN keys |->
                                                  IF keys[i] \in DOMAIN cache
                                                    THEN cache[keys[i]]
                                                    ELSE <<>>]]]

\* dispatchBatch for a loader of the request: the batch function runs on
\* the next batch (one find) and its values are cached under their keys;
\* after the last batch the loads of the tick have their values.
LoaderBatch(r) ==
    /\ pc[r] = "loader_batch"
    /\ UNCHANGED <<employees, records, now, req, nops, resp>>
    /\ LET l == loc[r].loader
           ids == Head(loc[r].batches)
           values == IF l = "employeeLoader" THEN EmployeeBatch(ids)
                                             ELSE AttendanceBatch(ids)
           fetched == [k \in Range(ids) |->
                         values[CHOOSE i \in DOMAIN ids : ids[i] = k]]
           rest == Tail(loc[r].batches)
       IN  /\ queries' = [queries EXCEPT
                            ![r] = Append(@, [loader |-> l, ids |-> ids])]
           /\ pc' = [pc EXCEPT ![r] = IF rest = <<>> THEN "resolving"
                                                     ELSE "loader_batch"]
           /\ loc' = [loc EXCEPT ![r] =
                 [@ EXCEPT !.batches = rest,
                           !.caches = [@ EXCEPT ![l] = fetched @@ @],
                           !.last = [i \in DOMAIN @ |->
                                       IF loc[r].keys[i] \in DOMAIN fetched
                                         THEN fetched[loc[r].keys[i]]
                                         ELSE @[i]]]]

\* The loader that a type of invalidateLoaderCache selects.
LoaderOf(type) ==
    IF type = "employee" THEN "employeeLoader" ELSE "attendanceLoader"

\* invalidateLoaderCache with clearAll() in place of clear(id).
invalidateLoaderCacheAll(r, types, ids) ==
    \E type \in types, id \in ids :
        /\ pc[r] = "resolving"
        /\ UNCHANGED <<employees, records, now, req, nops, resp, queries, pc>>
        /\ loc' = [loc EXCEPT ![r].caches[LoaderOf(type)] = <<>>]

\* invalidateLoaderCache(loaders, type, id) on the loaders of the request:
\* loader.clear(id) removes the cached promise of the key id.
invalidateLoaderCache(r, types, ids) ==
    \E type \in types, id \in ids :
        /\ pc[r] = "resolving"
        /\ UNCHANGED <<employees, records, now, req, nops, resp, queries, pc>>
        /\ loc' = [loc EXCEPT ![r].caches[LoaderOf(type)] =
                      [k \in DOMAIN @ \ {id} |-> @[k]]]

\* The request is answered: its context, the loaders with it, is dropped.
Respond(r) ==
    /\ pc[r] = "resolving"
    /\ UNCHANGED <<employees, records, now, req, nops, queries>>
    /\ Return(r, Data(loc[r].last))

(* -------------------- calls of validateEmployeeInput ------------------ *)

\* validateEmployeeInput(input) called on its own, with a partial input.
ApplyValidateEmployeeInput(r, ages, emails) ==
    \E a \in {{}} \cup {{x} : x \in ages},
       m \in {{}} \cup {{x} : x \in emails} :
        LET call == [NoReq EXCEPT !.op = "validateEmployeeInput",
                                  !.age = a, !.email = m]
        IN  /\ Begin(r)
            /\ Accept(r, call)
            /\ UNCHANGED <<employees, records, now>>
            /\ Return(r, Data(validateEmployeeInput(call)))

(* ------------------------- calls of checkRole ------------------------- *)

\* checkRole(requiredRoles)(user) called on its own: it returns true or
\* throws, and what it throws leaves the caller as it is.
ApplyCheckRole(r, users, roleSets) ==
    \E u \in users, allowed \in roleSets :
        LET role == checkRole(allowed, u)
        IN  /\ Begin(r)
            /\ Accept(r, [NoReq EXCEPT !.op = "checkRole", !.user = u,
                             !.roles = allowed])
            /\ UNCHANGED <<employees, records, now>>
            /\ IF role.message = "OK" THEN Return(r, Data(<<TRUE>>))
               ELSE Return(r, Thrown(role.message, role.code))

(* ------------------------------ the system ---------------------------- *)

\* The clock advances.
Tick ==
    /\ now < MaxTime
    /\ now' = now + 1
    /\ UNCHANGED <<employees, records, pc, req, loc, resp, nops, queries>>

\* The database holds no attendance record and the employees of population;
\* the clock stands at t.
StartAt(population, t) ==
    /\ employees \in population
    /\ records = {}
    /\ now = t
    /\ pc = [r \in Reqs |-> "idle"]
    /\ req = [r \in Reqs |-> NoReq]
    /\ loc = [r \in Reqs |-> NoLoc]
    /\ resp = [r \in Reqs |-> NoResp]
    /\ nops = 0
    /\ queries = [r \in Reqs |-> <<>>]

\* The clock stands at the start of the second day.
Start(population) == StartAt(population, TicksPerDay)

NoEmployees == [id \in {} |-> NewEmployee(NoReq, 0)]

\* The store after a createEmployee at time 0.
OneEmployee ==
    [id \in {"e1"} |->
       NewEmployee([NoReq EXCEPT !.age = {AgeMin}, !.email = {"a@x.io"},
                                 !.class = "10A"], 0)]

\* The store after a second createEmployee, at time 1.
TwoEmployees ==
    [id \in EmpIds |->
       NewEmployee([NoReq EXCEPT
                      !.age = {IF id = "e1" THEN AgeMin ELSE AgeMax},
                      !.email = {IF id = "e1" THEN "a@x.io" ELSE "b@x.io"},
                      !.class = "10A"],
                   IF id = "e1" THEN 0 ELSE 1)]

Init == Start({NoEmployees, OneEmployee})

\* The specifications below are parts of the whole system, Spec at their
\* end: each takes some of its operations, identities and inputs, from a
\* store of at most two employees, so that its state space is small enough
\* to be searched in full.

\* One request at a time: the calls of an administrator that write the
\* store, with every attendance date.
NextSeq ==
    \/ Tick
    \/ \E r \in {"r1"} :
        \/ markAttendance(r, {Admin}, EmpIds, Dates \cup {NaNDate}, {0})
        \/ calculateAttendancePercentage(r, EmpIds)
        \/ createEmployee(r, {Admin}, {AgeMin}, Emails)
        \/ updateEmployee(r, {Admin}, EmpIds, {AgeMax}, {})
        \/ PreSave(r)
        \/ Insert(r)
        \/ updateAttendanceStats(r)
        \/ updateAttendancePercentage(r)
        \/ Save(r)
        \/ CalcFindById(r)
        \/ CreateInsert(r)
        \/ FindByIdAndUpdate(r)

SpecSeq == Init /\ [][NextSeq]_vars

\* One request at a time: every operation under every identity, with an
\* input that passes validation.
NextAuth ==
    \E r \in {"r1"} :
        \/ markAttendance(r, Users, EmpIds, {0}, NotesLens)
        \/ createEmployee(r, Users, {AgeMin}, Emails)
        \/ updateEmployee(r, Users, EmpIds, {AgeMax}, {})
        \/ employee(r, Users, EmpIds)
        \/ employeeAttendance(r, Users, EmpIds)
        \/ employeeStats(r, Users)
        \/ PreSave(r)
        \/ Insert(r)
        \/ updateAttendanceStats(r)
        \/ updateAttendancePercentage(r)
        \/ Save(r)
        \/ CreateInsert(r)
        \/ FindByIdAndUpdate(r)
        \/ EmployeeLoad(r)
        \/ AttendanceLoad(r)
        \/ StatsTotal(r)
        \/ StatsClass(r)
        \/ StatsTrend(r)

SpecAuth == Init /\ [][NextAuth]_vars

\* Concurrent markAttendance calls of an administrator for one employee,
\* interleaved at every await.
NextRace ==
    \E r \in Reqs :
        \/ markAttendance(r, {Admin}, {"e1"}, Dates, {0})
        \/ PreSave(r)
        \/ Insert(r)
        \/ updateAttendanceStats(r)
        \/ updateAttendancePercentage(r)
        \/ Save(r)

SpecRace == Start({OneEmployee}) /\ [][NextRace]_vars

\* Bounds of the operations that load through the loaders: the number of
\* fields of one operation.
MaxFields == 4

KeySeqs ==
    [1 .. MaxFields -> LoadKeys]
        \cup {FillerKeys, SubSeq(FillerKeys, 1, MaxBatchSize)}

\* One request at a time: an administrator marks attendance, and operations
\* of several fields load employees and attendance through the loaders.
NextLoad ==
    \E r \in {"r1"} :
        \/ markAttendance(r, {Admin}, EmpIds, {0, 1}, {0})
        \/ loadFields(r, {Admin}, {"employeeLoader"}, KeySeqs)
        \/ loadFields(r, Users \ {NoUser}, {"attendanceLoader"},
                      [1 .. MaxFields - 1 -> LoadKeys])
        \/ PreSave(r)
        \/ Insert(r)
        \/ updateAttendanceStats(r)
        \/ updateAttendancePercentage(r)
        \/ Save(r)
        \/ DispatchBatch(r)

SpecLoad == Start({OneEmployee, TwoEmployees}) /\ [][NextLoad]_vars

\* Bounds of the employees queries: the pages asked for and the counts of
\* matches the page arithmetic is applied to.
MaxPage == 3

MaxCount == 25

PageSizes == {1, 2, DefaultPageSize}

\* One request at a time: employees queries for every page, and the page
\* arithmetic for larger counts.
NextPage ==
    \E r \in {"r1"} :
        \/ employeesQuery(r, Users,
                          {Args(NoFilter, {}, p, size) :
                              p \in 1 .. MaxPage, size \in PageSizes})
        \/ CountDocuments(r)
        \/ Find(r)
        \/ ApplyPageInfo(r, 1 .. MaxPage, PageSizes, 0 .. MaxCount)

SpecPage ==
    Start({NoEmployees, OneEmployee, TwoEmployees}) /\ [][NextPage]_vars

\* The filters of the model: every field is left out or has one of two
\* values, 0 among them for the bounds, and at most two fields are given.
Filters ==
    {f \in [class : {{}, {"10A"}, {"11B"}},
            minAge : {{}, {0}, {AgeMax}},
            maxAge : {{}, {0}, {AgeMin}},
            minAttendance : {{}, {0}, {DefaultAttendance \div 2}},
            maxAttendance : {{}, {0}, {DefaultAttendance \div 2}}] :
        Cardinality({k \in DOMAIN f : f[k] # {}}) <= 2}

\* One request at a time: an administrator marks attendance, and employees
\* queries with every filter and with every sort.
NextQuery ==
    \E r \in {"r1"} :
        \/ markAttendance(r, {Admin}, EmpIds, {0}, {0})
        \/ employeesQuery(r, {Admin},
              {Args(f, {}, DefaultPage, DefaultPageSize) : f \in Filters}
                \cup {Args(NoFilter, {sort}, DefaultPage, DefaultPageSize) :
                         sort \in Sorts})
        \/ PreSave(r)
        \/ Insert(r)
        \/ updateAttendanceStats(r)
        \/ updateAttendancePercentage(r)
        \/ Save(r)
        \/ CountDocuments(r)
        \/ Find(r)

SpecQuery == Start({OneEmployee, TwoEmployees}) /\ [][NextQuery]_vars

\* One request at a time: the createEmployee and updateEmployee calls of an
\* administrator with every input, valid or not.
NextInput ==
    \E r \in {"r1"} :
        \/ createEmployee(r, {Admin}, Ages, Emails \cup {BadEmail})
        \/ updateEmployee(r, {Admin}, EmpIds, Ages, Emails \cup {BadEmail})
        \/ CreateInsert(r)
        \/ FindByIdAndUpdate(r)

SpecInput == Init /\ [][NextInput]_vars

\* Concurrent createEmployee and updateEmployee calls of an administrator
\* with every address, interleaved at every await.
NextEmail ==
    \E r \in Reqs :
        \/ createEmployee(r, {Admin}, {AgeMin}, Emails \cup {MixedEmail})
        \/ updateEmployee(r, {Admin}, EmpIds, {}, Emails \cup {MixedEmail})
        \/ CreateInsert(r)
        \/ FindByIdAndUpdate(r)

SpecEmail == Init /\ [][NextEmail]_vars

\* checkRole alone, with every identity and every set of required roles.
NextAccess == \E r \in Reqs : ApplyCheckRole(r, Users, SUBSET Roles)

SpecAccess == Start({OneEmployee}) /\ [][NextAccess]_vars

\* Concurrent markAttendance calls of an administrator for one employee,
\* and recalculations that run alone: a recalculate starts when no request
\* is in flight, and no markAttendance starts while it runs.
Recalculating == {r \in InFlight : req[r].op = "recalculate"}

NextRepair ==
    \E r \in Reqs :
        \/ markAttendance(r, {Admin}, {"e1"}, 0 .. TicksPerDay, {0})
             /\ Recalculating = {}
        \/ calculateAttendancePercentage(r, {"e1"}) /\ InFlight = {}
        \/ PreSave(r)
        \/ Insert(r)
        \/ updateAttendanceStats(r)
        \/ updateAttendancePercentage(r)
        \/ Save(r)
        \/ CalcFindById(r)

SpecRepair == Start({OneEmployee}) /\ [][NextRepair]_vars

\* One request at a time: the markAttendance calls and the recalculations
\* of an administrator for one employee, with a store that may fail at any
\* call.
NextFail ==
    \E r \in {"r1"} :
        \/ markAttendance(r, {Admin}, {"e1"}, 0 .. TicksPerDay, {0})
        \/ calculateAttendancePercentage(r, {"e1"})
        \/ PreSave(r)
        \/ Insert(r)
        \/ updateAttendanceStats(r)
        \/ updateAttendancePercentage(r)
        \/ Save(r)
        \/ CalcFindById(r)
        \/ StoreThrows(r)

SpecFail == Start({OneEmployee}) /\ [][NextFail]_vars

\* One request at a time: the calls of an administrator that write the
\* employees, among them calls whose input names the attendance.
NextOwner ==
    \E r \in {"r1"} :
        \/ markAttendance(r, {Admin}, {"e1"}, {0}, {0})
        \/ createEmployee(r, {Admin}, {AgeMin}, Emails)
        \/ updateEmployee(r, {Admin}, EmpIds, {AgeMax}, Emails)
        \/ mutationWithAttendance(r, {Admin},
              {"createEmployee", "updateEmployee"}, EmpIds, {<<0, 1>>})
        \/ PreSave(r)
        \/ Insert(r)
        \/ updateAttendanceStats(r)
        \/ updateAttendancePercentage(r)
        \/ Save(r)
        \/ CreateInsert(r)
        \/ FindByIdAndUpdate(r)

SpecOwner == Init /\ [][NextOwner]_vars

\* Concurrent requests of an administrator: requests that load through
\* their loaders in several rounds and invalidate entries between them, and
\* markAttendance calls, at the second slot, that write what the loaders
\* read.
CacheKeySeqs == {<<"e1">>, <<"e1", "e2">>}

NextCache ==
    \E r \in Reqs :
        \/ context(r, {Admin})
        \/ load(r, Loaders, CacheKeySeqs)
        \/ LoaderBatch(r)
        \/ invalidateLoaderCache(r, {"employee", "attendance"}, {"e1"})
        \/ Respond(r)
        \/ markAttendance(r, {Admin}, {"e1"}, {0}, {0}) /\ r = "r2"
        \/ PreSave(r)
        \/ Insert(r)
        \/ updateAttendanceStats(r)
        \/ updateAttendancePercentage(r)
        \/ Save(r)

SpecCache == Start({TwoEmployees}) /\ [][NextCache]_vars

\* validateEmployeeInput alone, with every partial input.
NextValidate ==
    \E r \in Reqs :
        ApplyValidateEmployeeInput(r, Ages, Emails \cup {BadEmail, MixedEmail})

SpecValidate == Start({OneEmployee}) /\ [][NextValidate]_vars

\* One request at a time, on a day that has more than TrendLimit days
\* before it: an administrator marks attendance for the first day, for
\* yesterday and for today, and asks for the statistics.
Today == (TrendLimit + 1) * TicksPerDay

NextTrend ==
    \E r \in {"r1"} :
        \/ markAttendance(r, {Admin}, {"e1"},
                          {0, 1, Today - TicksPerDay, Today}, {0})
        \/ employeeStats(r, {Admin})
        \/ PreSave(r)
        \/ Insert(r)
        \/ updateAttendanceStats(r)
        \/ updateAttendancePercentage(r)
        \/ Save(r)
        \/ StatsTotal(r)
        \/ StatsClass(r)
        \/ StatsTrend(r)

SpecTrend == StartAt({OneEmployee}, Today) /\ [][NextTrend]_vars

\* One request at a time: every operation of the API and the
\* recalculation, called by an administrator.
NextAll ==
    \E r \in {"r1"} :
        \/ markAttendance(r, {Admin}, EmpIds, {0}, {0})
        \/ calculateAttendancePercentage(r, EmpIds)
        \/ createEmployee(r, {Admin}, {AgeMin}, Emails)
        \/ updateEmployee(r, {Admin}, EmpIds, {AgeMax}, Emails)
        \/ employee(r, {Admin}, EmpIds)
        \/ employeeAttendance(r, {Admin}, EmpIds)
        \/ employeeStats(r, {Admin})
        \/ employeesQuery(r, {Admin},
                          {Args(NoFilter, {}, DefaultPage, DefaultPageSize)})
        \/ PreSave(r)
        \/ Insert(r)
        \/ updateAttendanceStats(r)
        \/ updateAttendancePercentage(r)
        \/ Save(r)
        \/ CalcFindById(r)
        \/ CreateInsert(r)
        \/ FindByIdAndUpdate(r)
        \/ EmployeeLoad(r)
        \/ AttendanceLoad(r)
        \/ StatsTotal(r)
        \/ StatsClass(r)
        \/ StatsTrend(r)
        \/ CountDocuments(r)
        \/ Find(r)

SpecAll == Init /\ [][NextAll]_vars

\* One request at a time: an administrator creates employees and asks for
\* the statistics.
NextStats ==
    \E r \in {"r1"} :
        \/ createEmployee(r, {Admin}, {AgeMin, AgeMax}, Emails)
        \/ updateEmployee(r, {Admin}, EmpIds, {AgeMin, AgeMax}, {})
        \/ employeeStats(r, {Admin})
        \/ CreateInsert(r)
        \/ FindByIdAndUpdate(r)
        \/ StatsTotal(r)
        \/ StatsClass(r)
        \/ StatsTrend(r)

SpecStats == Init /\ [][NextStats]_vars

\* The whole system: every operation, under every identity and with every
\* input, the requests interleaved at every await.
Next ==
    \/ Tick
    \/ \E r \in Reqs :
        \/ markAttendance(r, Users, EmpIds, Dates \cup {NaNDate}, NotesLens)
        \/ calculateAttendancePercentage(r, EmpIds)
        \/ createEmployee(r, Users, Ages, Emails \cup {BadEmail, MixedEmail})
        \/ updateEmployee(r, Users, EmpIds, Ages,
                          Emails \cup {BadEmail, MixedEmail})
        \/ employee(r, Users, EmpIds)
        \/ employeeAttendance(r, Users, EmpIds)
        \/ employeeStats(r, Users)
        \/ employeesQuery(r, Users,
              {Args(f, sort, p, size) :
                  f \in Filters, sort \in {{}} \cup {{x} : x \in Sorts},
                  p \in 1 .. MaxPage, size \in PageSizes})
        \/ loadFields(r, Users, Loaders,
                      KeySeqs \cup [1 .. MaxFields - 1 -> LoadKeys])
        \/ ApplyCheckRole(r, Users, SUBSET Roles)
        \/ ApplyPageInfo(r, 1 .. MaxPage, PageSizes, 0 .. MaxCount)
        \/ PreSave(r)
        \/ Insert(r)
        \/ updateAttendanceStats(r)
        \/ updateAttendancePercentage(r)
        \/ Save(r)
        \/ CalcFindById(r)
        \/ CreateInsert(r)
        \/ FindByIdAndUpdate(r)
        \/ EmployeeLoad(r)
        \/ AttendanceLoad(r)
        \/ StatsTotal(r)
        \/ StatsClass(r)
        \/ StatsTrend(r)
        \/ CountDocuments(r)
        \/ Find(r)
        \/ DispatchBatch(r)
        \/ StoreThrows(r)
        \/ ApplyValidateEmployeeInput(r, Ages,
                                      Emails \cup {BadEmail, MixedEmail})
        \/ context(r, Users)
        \/ load(r, Loaders, CacheKeySeqs)
        \/ LoaderBatch(r)
        \/ invalidateLoaderCache(r, {"employee", "attendance"}, EmpIds)
        \/ Respond(r)
        \/ mutationWithAttendance(r, Users,
              {"createEmployee", "updateEmployee"}, EmpIds,
              {<<0, 1>>, Hundred})

Spec == Init /\ [][Next]_vars

(* ------------------------------- claims ------------------------------- *)

Quiescent == InFlight = {}

PresentDays(id) == Cardinality({rec \in RecordsOf(id) : rec.present})

TotalDays(id) == Cardinality(RecordsOf(id))

\* The stored attendance p = n / d of employee id equals 100 * P / N.
Consistent(id) ==
    employees[id].attendance[1] * TotalDays(id)
        = 100 * PresentDays(id) * employees[id].attendance[2]

\* C1: when the calls run one at a time, then after each of them every
\* employee with N >= 1 attendance records, P of them present, has the stored
\* attendance 100 * P / N.
C1_AttendanceAfterSequentialCalls ==
    Quiescent =>
        \A id \in DOMAIN employees : TotalDays(id) >= 1 => Consistent(id)

\* A markAttendance call has succeeded for an employee who now has at least
\* two records, some present and some absent.
C1_Witness ==
    \E r \in Reqs :
        /\ pc[r] = "done"
        /\ req[r].op = "markAttendance"
        /\ resp[r].success
        /\ TotalDays(req[r].id) >= 2
        /\ PresentDays(req[r].id) \notin {0, TotalDays(req[r].id)}

\* C2: once concurrent markAttendance calls for one employee have all
\* finished, the stored attendance equals 100 * P / N over the employee's
\* records.
C2_AttendanceAfterConcurrentCalls ==
    (\A r \in Reqs : pc[r] \in {"idle", "done"}) =>
        \A id \in DOMAIN employees :
            employees[id].attendance[1] * TotalDays(id)
                = 100 * PresentDays(id) * employees[id].attendance[2]

Kind(code) ==
    CASE code = "UNAUTHENTICATED" -> "Unauthenticated"
      [] code = "FORBIDDEN" -> "Forbidden"
      [] code = "NOT_FOUND" -> "NotFound"
      [] code = "INVALID_DATE" -> "InvalidState"
      [] code \in {"INVALID_NOTES", "INVALID_AGE", "INVALID_EMAIL"}
            -> "ValidationFailed"
      [] OTHER -> "Internal"

\* The response out reports a failure of the given kind.
Fails(out, kind) ==
    /\ out.kind \in {"payload", "error"}
    /\ ~out.success
    /\ \E i \in DOMAIN out.errors : Kind(out.errors[i].code) = kind

\* This step is a step of request r.
Acts(r) == pc'[r] # pc[r] \/ req'[r] # req[r] \/ resp'[r] # resp[r]

\* This step is the arrival of a call at slot r (where one slot is in use).
Called(r) ==
    /\ pc[r] \in {"idle", "done"}
    /\ nops' = nops + 1
    /\ req'[r].op # "none"

\* C4: a markAttendance whose (employeeId, date) already has a record fails
\* with a Conflict error, adds no record and leaves the employees as they are.
C4_DuplicateIsConflict ==
    [][\A r \in Reqs :
         (pc[r] = "mark_insert" /\ Acts(r) /\ DuplicateKey(NewRecord(req[r])))
            => /\ pc'[r] = "done"
               /\ Fails(resp'[r], "Conflict")
               /\ records' = records
               /\ employees' = employees]_vars

\* C5: a markAttendance whose date is later than the current time fails with
\* an InvalidState error at once, and neither the records nor the employees
\* change.
C5_FutureDateRejected ==
    [][\A r \in Reqs :
         (/\ Called(r)
          /\ req'[r].op = "markAttendance"
          /\ req'[r].user = Admin
          /\ req'[r].date # NaNDate
          /\ req'[r].date > now)
            => /\ pc'[r] = "done"
               /\ resp'[r].kind = "payload"
               /\ Fails(resp'[r], "InvalidState")
               /\ records' = records
               /\ employees' = employees]_vars

\* A markAttendance for an existing employee with a date still in the future
\* has returned its INVALID_DATE error.
C5_Witness ==
    \E r \in Reqs :
        /\ pc[r] = "done"
        /\ req[r].op = "markAttendance"
        /\ req[r].user = Admin
        /\ Exists(req[r].id)
        /\ req[r].date > now
        /\ \E i \in DOMAIN resp[r].errors : resp[r].errors[i].code = "INVALID_DATE"

\* C6: a markAttendance whose employeeId names no employee fails with a
\* NotFound error and adds no record.
C6_UnknownEmployeeIsNotFound ==
    [][\A r \in Reqs :
         (pc[r] = "mark_presave" /\ Acts(r) /\ ~Exists(req[r].id))
            => /\ pc'[r] = "done"
               /\ Fails(resp'[r], "NotFound")
               /\ records' = records]_vars

\* C7: no two attendance records of one employee fall on the same calendar
\* date.
C7_OneRecordPerEmployeeAndDay ==
    \A a, b \in records :
        (a.employeeId = b.employeeId /\ Day(a.date) = Day(b.date)) => a = b

\* C8: a createEmployee, updateEmployee or markAttendance call without an
\* ADMIN identity ends at once and changes neither employees nor records.
C8_MutationsNeedAdmin ==
    [][\A r \in Reqs :
         (/\ Called(r)
          /\ req'[r].op \in Mutations
          /\ req'[r].user.role # "ADMIN")
            => /\ pc'[r] = "done"
               /\ ~resp'[r].success
               /\ records' = records
               /\ employees' = employees]_vars

\* A createEmployee call of an EMPLOYEE identity has been turned down.
C8_Witness ==
    \E r \in Reqs :
        /\ pc[r] = "done"
        /\ req[r].op = "createEmployee"
        /\ req[r].user.role = "EMPLOYEE"
        /\ ~resp[r].success

\* The call of request r is one its identity is not authorized for.
NotAuthorized(r) ==
    /\ req[r].user # NoUser
    /\ \/ /\ req[r].op \in Mutations \cup {"employeeStats"}
          /\ req[r].user.role # "ADMIN"
       \/ /\ req[r].op \in {"employee", "employeeAttendance"}
          /\ req[r].user.role # "ADMIN"
          /\ req[r].user.id # req[r].id

\* C9: a call its identity is not authorized for ends in a transport-level
\* failure that carries the code FORBIDDEN.
C9_ForbiddenIsTransportError ==
    \A r \in Reqs :
        (pc[r] = "done" /\ NotAuthorized(r))
            => /\ resp[r].kind = "error"
               /\ \E i \in DOMAIN resp[r].errors :
                    resp[r].errors[i].code = "FORBIDDEN"

\* C10: employee(id) and employeeAttendance(id) load and return data only for
\* an ADMIN or for the EMPLOYEE whose id is id; for another EMPLOYEE they throw
\* and return nothing.
C10_OwnRecordOrAdmin ==
    \A r \in Reqs :
        req[r].op \in {"employee", "employeeAttendance"} =>
            LET allowed == \/ req[r].user.role = "ADMIN"
                           \/ /\ req[r].user.role = "EMPLOYEE"
                              /\ req[r].user.id = req[r].id
            IN  /\ (pc[r] \in {"employee_load", "attendance_load"}) => allowed
                /\ (pc[r] = "done" /\ resp[r].kind = "data") => allowed
                /\ (pc[r] = "done" /\ ~allowed) =>
                      resp[r].kind = "error" /\ resp[r].data = <<>>

\* An EMPLOYEE has asked for the attendance of another employee, who has
\* records, and got an error.
C10_Witness ==
    \E r \in Reqs :
        /\ pc[r] = "done"
        /\ req[r].op = "employeeAttendance"
        /\ req[r].user.role = "EMPLOYEE"
        /\ req[r].user.id # req[r].id
        /\ Exists(req[r].id)
        /\ resp[r].kind = "error"

\* C11: checkRole fails with a Forbidden error when there is no identity and
\* when the role of the identity is not among the required roles, and it
\* succeeds in every other case.
C11_CheckRoleFailsForbidden ==
    \A r \in Reqs :
        (pc[r] = "done" /\ req[r].op = "checkRole") =>
            IF req[r].user = NoUser \/ req[r].user.role \notin req[r].roles
              THEN Fails(resp[r], "Forbidden")
              ELSE resp[r].kind = "data"

\* Request r is an operation of the given loader that has returned.
Loaded(r, loader) == pc[r] = "done" /\ req[r].op = loader

\* The fields of request r whose resolver reached its load.
LoadsOf(r) ==
    {i \in DOMAIN req[r].keys :
        canAccessEmployeeData(req[r].user, req[r].keys[i])}

KeysOf(r) == {req[r].keys[i] : i \in LoadsOf(r)}

\* The queries of request r are one find whose $in filter holds each
\* distinct key once.
OneQuery(r) ==
    /\ Len(queries[r]) = 1
    /\ Range(queries[r][1]) = KeysOf(r)
    /\ Len(queries[r][1]) = Cardinality(KeysOf(r))

\* C13 as stated: the loads of one tick on one loader, whatever their
\* number, make exactly one find, whose $in filter is the set of the
\* distinct keys.
C13_OneQueryWhateverTheNumber ==
    \A r \in Reqs :
        (\E loader \in Loaders : Loaded(r, loader)) /\ KeysOf(r) # {}
            => OneQuery(r)

\* C13, amended: up to maxBatchSize (100) distinct keys make exactly one
\* find, whose $in filter is the set of the distinct keys; k distinct keys
\* make ceil(k / 100) finds of at most 100 keys each, every distinct key in
\* exactly one of them.
C13_OneQueryPerHundredKeys ==
    \A r \in Reqs :
        (\E loader \in Loaders : Loaded(r, loader)) /\ KeysOf(r) # {} =>
            LET k == Cardinality(KeysOf(r))
            IN  /\ k <= MaxBatchSize => OneQuery(r)
                /\ Len(queries[r]) = (k + MaxBatchSize - 1) \div MaxBatchSize
                /\ \A q \in DOMAIN queries[r] :
                      Len(queries[r][q]) <= MaxBatchSize
                /\ \A key \in KeysOf(r) :
                      Cardinality({<<q, i>> \in
                            (DOMAIN queries[r]) \X (1 .. MaxBatchSize) :
                                /\ i <= Len(queries[r][q])
                                /\ queries[r][q][i] = key}) = 1

\* An operation that loads exactly maxBatchSize distinct keys has made one
\* find.
C13_Witness ==
    \E r \in Reqs, loader \in Loaders :
        /\ Loaded(r, loader)
        /\ Cardinality(KeysOf(r)) = MaxBatchSize
        /\ Len(queries[r]) = 1

\* C14: the attendance loader gives each requested employee id exactly the
\* records of that employee, newest date first, and the empty sequence when
\* the employee has none.
C14_AttendanceLoaderResults ==
    \A r \in Reqs :
        Loaded(r, "attendanceLoader") =>
            \A i \in LoadsOf(r) :
                LET id == req[r].keys[i]
                    out == resp[r].data[i]
                IN  /\ ~out.error
                    /\ Range(out.value) = RecordsOf(id)
                    /\ Len(out.value) = Cardinality(RecordsOf(id))
                    /\ \A j, k \in DOMAIN out.value :
                          j < k => out.value[j].date > out.value[k].date

\* One operation has loaded the attendance of an employee with two records,
\* of another employee with a record and of an id without records.
C14_Witness ==
    \E r \in Reqs :
        /\ Loaded(r, "attendanceLoader")
        /\ \E i, j, k \in LoadsOf(r) :
              /\ TotalDays(req[r].keys[i]) >= 2
              /\ req[r].keys[j] # req[r].keys[i]
              /\ TotalDays(req[r].keys[j]) >= 1
              /\ TotalDays(req[r].keys[k]) = 0

\* Request r is an employees query that has returned its page.
Paged(r) ==
    pc[r] = "done" /\ req[r].op = "employees" /\ resp[r].kind = "data"

\* C15: for page >= 1, pageSize >= 1 and totalCount >= 0 the employees query
\* finds with skip = (page - 1) * pageSize and limit = pageSize, and its
\* pageInfo has totalPages = ceil(totalCount / pageSize), hasPreviousPage =
\* (page > 1), currentPage = page and hasNextPage = (page * pageSize <
\* totalCount).
C15_PageArithmetic ==
    \A r \in Reqs :
        (Paged(r) \/ (pc[r] = "done" /\ req[r].op = "pageInfo")) =>
            LET page == req[r].page
                pageSize == req[r].pageSize
                info == resp[r].data[1].pageInfo
                options == IF req[r].op = "employees"
                             THEN queries[r][Len(queries[r])]
                             ELSE resp[r].data[1].options
            IN  /\ options.skip = (page - 1) * pageSize
                /\ options.limit = pageSize
                /\ info.totalPages * pageSize >= info.totalCount
                /\ (info.totalPages - 1) * pageSize < info.totalCount
                /\ info.hasPreviousPage = (page > 1)
                /\ info.currentPage = page
                /\ info.hasNextPage = (page * pageSize < info.totalCount)
                /\ req[r].op = "pageInfo" => info.totalCount = req[r].totalCount
                /\ req[r].op = "employees" =>
                      /\ info.totalCount = Cardinality(DOMAIN employees)
                      /\ Len(resp[r].data[1].edges) <= pageSize

\* An employees query for page 2 of size 1 over two employees has returned
\* the second of them, with a previous page and no next page.
C15_Witness ==
    \E r \in Reqs :
        /\ Paged(r)
        /\ req[r].page = 2
        /\ req[r].pageSize = 1
        /\ resp[r].data[1].pageInfo.totalCount = 2
        /\ Len(resp[r].data[1].edges) = 1
        /\ resp[r].data[1].pageInfo.hasPreviousPage
        /\ ~resp[r].data[1].pageInfo.hasNextPage

\* Document doc is within every bound and has every value that the filter
\* supplies, a bound of 0 included.
Satisfies(doc, filter) ==
    /\ \A v \in filter.class : doc.class = v
    /\ \A v \in filter.minAge : doc.age >= v
    /\ \A v \in filter.maxAge : doc.age <= v
    /\ \A v \in filter.minAttendance :
          doc.attendance[1] >= v * doc.attendance[2]
    /\ \A v \in filter.maxAttendance :
          doc.attendance[1] <= v * doc.attendance[2]

\* C16: the employees query matches exactly the employees that are within
\* every supplied bound on age and on attendance (a bound of 0 included) and
\* meet every other supplied filter field; an absent field constrains
\* nothing.
C16_FilterMatchesSuppliedBounds ==
    \A r \in Reqs :
        Paged(r) =>
            LET wanted == {id \in DOMAIN employees :
                             Satisfies(employees[id], req[r].filter)}
                edges == resp[r].data[1].edges
            IN  /\ resp[r].data[1].pageInfo.totalCount = Cardinality(wanted)
                /\ {edges[i].id : i \in DOMAIN edges} = wanted

\* The field that the value of the sort enumeration names.
FieldOf(sort) ==
    CASE sort \in {"AGE_ASC", "AGE_DESC"} -> "age"
      [] sort \in {"CLASS_ASC", "CLASS_DESC"} -> "class"
      [] sort \in {"ATTENDANCE_ASC", "ATTENDANCE_DESC"} -> "attendance"
      [] sort \in {"CREATED_AT_ASC", "CREATED_AT_DESC"} -> "createdAt"

\* C17: with the sort F_DIR the edges of the employees query are ordered by
\* the field F in the direction DIR, and without a sort by createdAt
\* descending.
C17_SortedByNamedField ==
    \A r \in Reqs :
        Paged(r) =>
            LET edges == resp[r].data[1].edges
                given == CHOOSE x \in req[r].sort : TRUE
                path == IF req[r].sort = {} THEN "createdAt" ELSE FieldOf(given)
                ascending == req[r].sort # {} /\ ~endsWithDesc(given)
            IN  \A i, j \in DOMAIN edges :
                    i < j => IF ascending
                               THEN NoLater(edges[i], edges[j], path)
                               ELSE NoLater(edges[j], edges[i], path)

\* The codes of the fields of an employee input that are invalid: an age
\* outside 18..70, an email that has not the shape local@domain.
InvalidCodes(input) ==
    {"INVALID_AGE" : a \in {x \in input.age : x < AgeMin \/ x > AgeMax}}
        \cup {"INVALID_EMAIL" : m \in {x \in input.email : x = BadEmail}}

\* C18: a createEmployee or updateEmployee of an administrator whose input
\* has an invalid field returns at once a payload with success false and one
\* error per invalid field, with the code of that field, and no employee
\* record is created or modified.
C18_InvalidInputRejected ==
    [][\A r \in Reqs :
         (/\ Called(r)
          /\ req'[r].op \in {"createEmployee", "updateEmployee"}
          /\ req'[r].user = Admin
          /\ InvalidCodes(req'[r]) # {})
            => /\ pc'[r] = "done"
               /\ resp'[r].kind = "payload"
               /\ ~resp'[r].success
               /\ Len(resp'[r].errors) = Cardinality(InvalidCodes(req'[r]))
               /\ {resp'[r].errors[i].code : i \in DOMAIN resp'[r].errors}
                     = InvalidCodes(req'[r])
               /\ employees' = employees
               /\ records' = records]_vars

\* A createEmployee of an administrator with the age 17 and a valid email
\* has returned one error, of code INVALID_AGE.
C18_Witness ==
    \E r \in Reqs :
        /\ pc[r] = "done"
        /\ req[r].op = "createEmployee"
        /\ req[r].user = Admin
        /\ req[r].age = {AgeMin - 1}
        /\ req[r].email \subseteq Emails
        /\ ~resp[r].success
        /\ Len(resp[r].errors) = 1
        /\ resp[r].errors[1].code = "INVALID_AGE"

Normalized(email) == IF email = "A@x.io" THEN "a@x.io" ELSE email

\* No two employees have the same address, case apart.
UniqueEmails ==
    \A a, b \in DOMAIN employees :
        a # b => Normalized(employees[a].email) # Normalized(employees[b].email)

\* The write that request r is about to make would give its employee the
\* address, case apart, of another employee.
WouldDuplicate(r) ==
    /\ \/ pc[r] = "create_insert"
       \/ pc[r] = "update_exec" /\ Exists(req[r].id)
    /\ \E m \in req[r].email :
          \E other \in DOMAIN employees :
              /\ pc[r] = "update_exec" => other # req[r].id
              /\ Normalized(employees[other].email) = Normalized(m)

\* C20: at every moment of every interleaving of createEmployee and
\* updateEmployee calls no two employees have the same address in lower
\* case, and a create or update that would give an employee the address of
\* another returns a payload with success false and a Conflict error and
\* leaves the employees as they are.
C20_UniqueEmailOrConflict ==
    /\ []UniqueEmails
    /\ [][\A r \in Reqs :
            (WouldDuplicate(r) /\ Acts(r))
               => /\ pc'[r] = "done"
                  /\ resp'[r].kind = "payload"
                  /\ Fails(resp'[r], "Conflict")
                  /\ employees' = employees]_vars

\* This step is the last of a recalculate of request r: its save.
Recalculated(r) ==
    /\ pc[r] = "uap_save"
    /\ req[r].op = "recalculate"
    /\ Acts(r)

\* C21: a recalculate that runs with no attendance write in between stores
\* the attendance 100 * P / N over the employee's records (100 without
\* records) whatever value was stored before, and returns it; run again
\* with no attendance write in between it stores the same value.
C21_RecalculateFromScratch ==
    [][\A r \in Reqs :
         Recalculated(r) =>
            LET id == req[r].id
            IN  /\ IF TotalDays(id) = 0
                     THEN employees'[id].attendance = Hundred
                     ELSE employees'[id].attendance[1] * TotalDays(id)
                            = 100 * PresentDays(id) * employees'[id].attendance[2]
                /\ resp'[r].data = <<employees'[id].attendance>>
                /\ Consistent(id) =>
                      employees'[id].attendance = employees[id].attendance]_vars

\* Two recalculations of one employee, who has records of presence and of
\* absence, have returned one after the other, both with the attendance
\* that is stored.
C21_Witness ==
    /\ \A r \in Reqs :
          /\ pc[r] = "done"
          /\ req[r].op = "recalculate"
          /\ req[r].id = "e1"
          /\ resp[r].data = <<employees["e1"].attendance>>
    /\ PresentDays("e1") \notin {0, TotalDays("e1")}

\* This step returns request r, a markAttendance.
MarkReturns(r) ==
    /\ req[r].op = "markAttendance"
    /\ pc[r] # "done"
    /\ pc'[r] = "done"

\* C22: when markAttendance returns success true, its record is in the
\* store and the step is the save of a recomputation made after the insert:
\* it leaves the employee with the attendance 100 * P / N over records that
\* include the new one and with the lastAttendanceUpdate of that
\* recomputation; no success is returned from any earlier point or after a
\* failure.
C22_SuccessAfterRecomputation ==
    [][\A r \in Reqs :
         (MarkReturns(r) /\ resp'[r].success)
            => LET id == req[r].id
               IN  /\ NewRecord(req[r]) \in records'
                   /\ pc[r] = "uap_save"
                   /\ employees'[id].attendance[1] * TotalDays(id)
                        = 100 * PresentDays(id) * employees'[id].attendance[2]
                   /\ employees'[id].lastAttendanceUpdate # NoDate
                   /\ employees'[id].lastAttendanceUpdate
                        = loc[r].lastAttendanceUpdate]_vars

\* A markAttendance has returned success for a day of absence: the record
\* is stored and the attendance is below 100.
C22_Witness ==
    \E r \in Reqs :
        /\ pc[r] = "done"
        /\ req[r].op = "markAttendance"
        /\ resp[r].success
        /\ ~req[r].present
        /\ NewRecord(req[r]) \in records
        /\ employees[req[r].id].attendance # Hundred
        /\ employees[req[r].id].lastAttendanceUpdate # NoDate

\* The points of markAttendance after its insert: the recomputations.
AfterInsert == {"uas_findById", "uap_find", "uap_save"}

\* C23: a markAttendance that ends within its recomputation without success
\* returns a payload with an Internal error and its record stays in the
\* store; no step removes a record; and a later recalculate or
\* markAttendance of that employee that succeeds leaves the attendance at
\* 100 * P / N.
C23_FailedRecomputationIsRepaired ==
    [][/\ records \subseteq records'
       /\ \A r \in Reqs :
            /\ (MarkReturns(r) /\ pc[r] \in AfterInsert /\ ~resp'[r].success)
                  => /\ resp'[r].kind = "payload"
                     /\ Fails(resp'[r], "Internal")
                     /\ NewRecord(req[r]) \in records'
            /\ (/\ pc[r] # "done" /\ pc'[r] = "done"
                /\ req[r].op \in {"markAttendance", "recalculate"}
                /\ resp'[r].success)
                  => employees'[req[r].id].attendance[1] * TotalDays(req[r].id)
                       = 100 * PresentDays(req[r].id)
                             * employees'[req[r].id].attendance[2]]_vars

\* A markAttendance has failed after its insert: the record is stored and
\* the stored attendance is not 100 * P / N.
C23_Witness ==
    \E r \in Reqs :
        /\ pc[r] = "done"
        /\ req[r].op = "markAttendance"
        /\ Fails(resp[r], "Internal")
        /\ NewRecord(req[r]) \in records
        /\ ~Consistent(req[r].id)

StoreValue(l, k) ==
    IF l = "employeeLoader"
      THEN IF Exists(k) THEN <<[id |-> k] @@ employees[k]>> ELSE <<>>
      ELSE SortByDateDesc(RecordsOf(k))

\* This step ends a round of loads of request r.
LoadEnds(r) ==
    /\ pc'[r] = "resolving"
    /\ loc'[r].loads > 0
    /\ \/ pc[r] = "loader_batch"
       \/ pc[r] = "resolving" /\ loc'[r].loads = loc[r].loads + 1

\* C25: a request starts with empty caches of its own; a load of a key that
\* the request has not loaded yet returns what the store holds at the load,
\* whatever the other requests have cached; a load of keys that the request
\* has loaded is served from its cache with no store query.
C25_CachesOfOneRequest ==
    [][\A r \in Reqs :
         /\ (pc[r] \in {"idle", "done"} /\ pc'[r] = "resolving")
               => \A l \in Loaders : DOMAIN loc'[r].caches[l] = {}
         /\ LoadEnds(r) =>
               LET l == loc'[r].loader
                   keys == loc'[r].keys
                   old == loc[r].caches[l]
               IN  /\ \A i \in DOMAIN keys :
                         loc'[r].last[i] =
                            IF keys[i] \in DOMAIN old THEN old[keys[i]]
                                                      ELSE StoreValue(l, keys[i])
                   /\ Range(keys) \subseteq DOMAIN old
                         => queries'[r] = queries[r]]_vars

\* Two requests hold different cached records for one employee: the first
\* loaded them before a markAttendance, the second after it and twice,
\* with one store query.
C25_Witness ==
    \E r, q \in Reqs :
        /\ pc[r] = "resolving" /\ pc[q] = "resolving"
        /\ "e1" \in DOMAIN loc[r].caches["attendanceLoader"]
        /\ "e1" \in DOMAIN loc[q].caches["attendanceLoader"]
        /\ loc[r].caches["attendanceLoader"]["e1"] = <<>>
        /\ loc[q].caches["attendanceLoader"]["e1"]
              = StoreValue("attendanceLoader", "e1")
        /\ RecordsOf("e1") # {}
        /\ loc[q].loads = MaxLoads
        /\ Len(queries[q]) = 1

\* The queries of request r on loader l that ask for key k.
QueriesFor(r, l, k) ==
    {i \in DOMAIN queries[r] :
        queries[r][i].loader = l /\ k \in Range(queries[r][i].ids)}

\* C26: invalidateLoaderCache removes the entry of its key from the cache
\* of the loader of its type and nothing else, in either cache; the next
\* load of that key makes a store query for it and returns what the store
\* holds.
C26_InvalidateOneEntry ==
    [][\A r \in Reqs :
         /\ (/\ pc[r] = "resolving" /\ pc'[r] = "resolving"
             /\ loc'[r].caches # loc[r].caches)
               => \E l \in Loaders : \E id \in DOMAIN loc[r].caches[l] :
                     /\ DOMAIN loc'[r].caches[l] = DOMAIN loc[r].caches[l] \ {id}
                     /\ \A k \in DOMAIN loc'[r].caches[l] :
                           loc'[r].caches[l][k] = loc[r].caches[l][k]
                     /\ \A other \in Loaders \ {l} :
                           loc'[r].caches[other] = loc[r].caches[other]
         /\ LoadEnds(r) =>
               \A i \in DOMAIN loc'[r].keys :
                   LET l == loc'[r].loader
                       k == loc'[r].keys[i]
                   IN  k \notin DOMAIN loc[r].caches[l]
                         => /\ loc'[r].last[i] = StoreValue(l, k)
                            /\ pc[r] = "loader_batch"
                            /\ k \in Range(queries'[r][Len(queries'[r])].ids)
                            /\ queries'[r][Len(queries'[r])].loader = l]_vars

\* A request has loaded the records of two employees, has invalidated the
\* entry of one, and has loaded that one again with a second query: it
\* holds the record that a markAttendance has stored since.
C26_Witness ==
    \E r \in Reqs :
        /\ pc[r] = "resolving"
        /\ Cardinality(QueriesFor(r, "attendanceLoader", "e1")) = 2
        /\ Cardinality(QueriesFor(r, "attendanceLoader", "e2")) = 1
        /\ DOMAIN loc[r].caches["attendanceLoader"] = {"e1", "e2"}
        /\ loc[r].last = <<StoreValue("attendanceLoader", "e1")>>
        /\ RecordsOf("e1") # {}

\* Request r is a finished call of validateEmployeeInput.
Validated(r) == pc[r] = "done" /\ req[r].op = "validateEmployeeInput"

\* C27: validateEmployeeInput returns no error for an input whose present
\* fields are all valid, whatever fields it lacks, and every error it
\* returns is for a field that the input has.
C27_OnlyPresentFieldsValidated ==
    \A r \in Reqs :
        Validated(r) =>
            LET errors == resp[r].data
                codes == {errors[i].code : i \in DOMAIN errors}
            IN  /\ ((\A a \in req[r].age : a >= AgeMin /\ a <= AgeMax)
                       /\ (\A m \in req[r].email : m # BadEmail))
                      => errors = <<>>
                /\ "INVALID_AGE" \in codes => req[r].age # {}
                /\ "INVALID_EMAIL" \in codes => req[r].email # {}
                /\ codes \subseteq {"INVALID_AGE", "INVALID_EMAIL"}

\* An input with a valid email and no age has been validated, with no
\* error, and an input with an invalid age and no email, with one error.
C27_Witness ==
    \E r, q \in Reqs :
        /\ Validated(r) /\ Validated(q)
        /\ req[r].age = {} /\ req[r].email = {"a@x.io"}
        /\ resp[r].data = <<>>
        /\ req[q].age = {AgeMax + 1} /\ req[q].email = {}
        /\ Len(resp[q].data) = 1

\* Request r is an employeeStats call that has returned its result.
StatsReturned(r) ==
    pc[r] = "done" /\ req[r].op = "employeeStats" /\ resp[r].kind = "data"

\* C28: the attendanceTrend of employeeStats has an entry for each of the
\* last 30 calendar days that has records and for no earlier day, and every
\* entry counts the records of its day that are present and that are
\* absent.
C28_TrendOfLastThirtyDays ==
    \A r \in Reqs :
        StatsReturned(r) =>
            LET trend == resp[r].data[1].attendanceTrend
                recent == {Day(rec.date) : rec \in
                             {x \in records : Day(now) - Day(x.date) <= 30}}
            IN  /\ {trend[i].date : i \in DOMAIN trend} = recent
                /\ \A i \in DOMAIN trend :
                      /\ trend[i].totalPresent =
                           Cardinality({rec \in records :
                              Day(rec.date) = trend[i].date /\ rec.present})
                      /\ trend[i].totalAbsent =
                           Cardinality({rec \in records :
                              Day(rec.date) = trend[i].date /\ ~rec.present})

\* C29: no step of any operation takes an attendance record out of the
\* store or changes one, and no step takes an employee out of the store.
C29_RecordsAreImmutable ==
    [][/\ records \subseteq records'
       /\ DOMAIN employees \subseteq DOMAIN employees']_vars

\* A markAttendance for an employee and a date that have a record, with
\* the other value of present, has failed: the record is as it was.
C29_Witness ==
    \E r \in Reqs :
        /\ pc[r] = "done"
        /\ req[r].op = "markAttendance"
        /\ ~resp[r].success
        /\ \E rec \in records :
              /\ IndexKey(rec) = IndexKey(NewRecord(req[r]))
              /\ rec.present # req[r].present

\* C30: employeeStats called by an administrator returns a totalEmployees
\* that is the number of employees, none included, and a classDistribution
\* whose counts add up to it.
C30_StatsCountEmployees ==
    \A r \in Reqs :
        StatsReturned(r) =>
            LET stats == resp[r].data[1]
                counted == {<<group.class, group.count>> :
                              group \in stats.classDistribution}
            IN  /\ stats.totalEmployees = {Cardinality(DOMAIN employees)}
                /\ \A c \in {employees[id].class : id \in DOMAIN employees} :
                      <<c, Cardinality({id \in DOMAIN employees :
                                          employees[id].class = c})>> \in counted
                /\ Cardinality(counted)
                     = Cardinality({employees[id].class : id \in DOMAIN employees})

====
